---- MODULE Spec2Model ----
(***************************************************************************)
(* restql: filter-expression parser (src/ast.go) and SQL builder /         *)
(* validator (src/schema/schema.go), with the query-parameter front end    *)
(* (src/integration_test.go, table variant of query.Parse).                *)
(*                                                                         *)
(* Representation.  A Go string is a sequence of atoms (TLA+ strings).     *)
(* Text that comes from the caller (filter text, field names, sort         *)
(* entries, placeholder styles, string literals) is written one character  *)
(* per atom, so that the lexer, TrimSpace, TrimPrefix, HasPrefix and       *)
(* slicing work on characters.  A string literal of the Go code is one     *)
(* atom (" WHERE ", "SELECT ").  Str(t) is the Go string itself.           *)
(* A Go pointer (or `any` that may be nil) is a sequence of length 0 (nil) *)
(* or 1.                                                                   *)
(***************************************************************************)
EXTENDS Integers, Sequences, FiniteSets, TLC

VARIABLES
    qb,      \* the QueryBuilder the calls act on
    ret,     \* what the last call returned
    prev,    \* what the ToSQL/Where call before it returned, when nothing was set in between
    pin,     \* the text given to ParseFilter
    pret,    \* what ParseFilter returned for it
    params,  \* the url.Values given to query.Parse
    qbs,     \* the QueryBuilders that calls run on at the same time
    calls,   \* those calls: where each one stands and what it returned
    schema   \* the Schema given to query.Parse

vars == <<qb, ret, prev, pin, pret, params, qbs, calls, schema>>

\* ------------------------------------------------------------------ text

Nil == <<>>

Some(v) == <<v>>

IsNil(p) == Len(p) = 0

\* F at the value of v: v is computed once, where a LET definition is
\* computed again at each of its uses
Let(v, F(_)) == CHOOSE y \in {F(x) : x \in {v}} : TRUE

\* the characters of a string, one per atom
Chars(s) == [i \in 1..Len(s) |-> SubSeq(s, i, i)]

RECURSIVE Str(_)
Str(t) == IF t = <<>> THEN "" ELSE Head(t) \o Str(Tail(t))

RECURSIVE Flatten(_)
Flatten(ts) == IF ts = <<>> THEN <<>> ELSE Head(ts) \o Flatten(Tail(ts))

\* strings.Join(parts, sep)
RECURSIVE Join(_, _)
Join(parts, sep) ==
    IF parts = <<>> THEN <<>>
    ELSE IF Len(parts) = 1 THEN parts[1]
    ELSE parts[1] \o sep \o Join(Tail(parts), sep)

Digits == <<"0", "1", "2", "3", "4", "5", "6", "7", "8", "9">>

DigitSet == {Digits[i] : i \in 1..10}

LetterSet ==
    {"a", "b", "c", "d", "e", "f", "g", "h", "i", "j", "k", "l", "m",
     "n", "o", "p", "q", "r", "s", "t", "u", "v", "w", "x", "y", "z",
     "A", "B", "C", "D", "E", "F", "G", "H", "I", "J", "K", "L", "M",
     "N", "O", "P", "Q", "R", "S", "T", "U", "V", "W", "X", "Y", "Z"}

SpaceSet == {" ", "\t", "\n", "\r", "\f"}

IsIdentStart(c) == c \in LetterSet \cup {"_"}

IsIdentPart(c) == c \in LetterSet \cup DigitSet \cup {"_"}

\* [A-Za-z_][A-Za-z0-9_]*
IsIdentifier(t) ==
    /\ Len(t) >= 1
    /\ IsIdentStart(t[1])
    /\ \A i \in 2..Len(t) : IsIdentPart(t[i])

DigitVal(c) == (CHOOSE i \in 1..10 : Digits[i] = c) - 1

\* strconv: decimal digits, optional sign, to an integer
RECURSIVE AtoiDigits(_, _)
AtoiDigits(t, acc) ==
    IF t = <<>> THEN acc ELSE AtoiDigits(Tail(t), acc * 10 + DigitVal(Head(t)))

Atoi(t) ==
    IF t[1] = "-" THEN 0 - AtoiDigits(Tail(t), 0)
    ELSE IF t[1] = "+" THEN AtoiDigits(Tail(t), 0)
    ELSE AtoiDigits(t, 0)

\* fmt.Sprintf("%d", n)
RECURSIVE ItoaNat(_)
ItoaNat(n) == IF n < 10 THEN <<Digits[n + 1]>> ELSE ItoaNat(n \div 10) \o <<Digits[(n % 10) + 1]>>

Itoa(n) == IF n < 0 THEN <<"-">> \o ItoaNat(0 - n) ELSE ItoaNat(n)

\* strings.TrimSpace
RECURSIVE TrimLeft(_)
TrimLeft(t) == IF t # <<>> /\ Head(t) \in SpaceSet THEN TrimLeft(Tail(t)) ELSE t

RECURSIVE TrimRight(_)
TrimRight(t) ==
    IF t # <<>> /\ t[Len(t)] \in SpaceSet THEN TrimRight(SubSeq(t, 1, Len(t) - 1)) ELSE t

TrimSpace(t) == TrimRight(TrimLeft(t))

\* strings.HasPrefix(s, "-")
HasDashPrefix(t) == t # <<>> /\ t[1] = "-"

\* strings.TrimPrefix(s, "-")
TrimDashPrefix(t) == IF HasDashPrefix(t) THEN Tail(t) ELSE t

\* strings.Split(value, ",")
RECURSIVE SplitComma(_, _)
SplitComma(t, cur) ==
    IF t = <<>> THEN <<cur>>
    ELSE IF Head(t) = "," THEN <<cur>> \o SplitComma(Tail(t), <<>>)
    ELSE SplitComma(Tail(t), Append(cur, Head(t)))

\* the text u occurs in t as a contiguous run of atoms
Contains(t, u) ==
    \E i \in 1..(Len(t) + 1) :
        /\ i + Len(u) - 1 <= Len(t)
        /\ \A j \in 1..Len(u) : t[i + j - 1] = u[j]

\* ----------------------------------------------------------------- lexer
\* filterLexer: the rules are tried in this order at each position and the
\* first rule that matches wins; whitespace tokens are elided.

RECURSIVE RunLen(_, _, _)
RunLen(s, i, S) == IF i <= Len(s) /\ s[i] \in S THEN 1 + RunLen(s, i + 1, S) ELSE 0

RECURSIVE RunLenNot(_, _, _)
RunLenNot(s, i, c) == IF i <= Len(s) /\ s[i] # c THEN 1 + RunLenNot(s, i + 1, c) ELSE 0

\* \s+
WhitespaceLen(s, i) == RunLen(s, i, SpaceSet)

\* [-+]?\d+
IntLen(s, i) ==
    LET sg == IF s[i] \in {"-", "+"} THEN 1 ELSE 0
        d == RunLen(s, i + sg, DigitSet)
    IN  IF d > 0 THEN sg + d ELSE 0

\* [-+]?\d+\.\d+
FloatLen(s, i) ==
    LET n == IntLen(s, i)
        f == RunLen(s, i + n + 1, DigitSet)
    IN  IF n > 0 /\ i + n <= Len(s) /\ s[i + n] = "." /\ f > 0 THEN n + 1 + f ELSE 0

\* '[^']*'|"[^"]*"
StringLen(s, i) ==
    IF s[i] \in {"'", "\""}
    THEN LET k == RunLenNot(s, i + 1, s[i])
         IN  IF i + 1 + k <= Len(s) THEN k + 2 ELSE 0
    ELSE 0

\* [a-zA-Z_][a-zA-Z0-9_]*
IdentLen(s, i) ==
    IF IsIdentStart(s[i]) THEN 1 + RunLen(s, i + 1, LetterSet \cup DigitSet \cup {"_"}) ELSE 0

TwoCharOperators ==
    {<<">", "=">>, <<"<", "=">>, <<"!", "=">>, <<"<", ">">>, <<"&", "&">>, <<"|", "|">>}

\* >=|<=|!=|<>|&&|\|\||=|>|<
OperatorsLen(s, i) ==
    IF i + 1 <= Len(s) /\ <<s[i], s[i + 1]>> \in TwoCharOperators THEN 2
    ELSE IF s[i] \in {"=", ">", "<"} THEN 1
    ELSE 0

\* [(),]
PunctLen(s, i) == IF s[i] \in {"(", ")", ","} THEN 1 ELSE 0

Tok(type, s, i, n) == [type |-> type, value |-> SubSeq(s, i, i + n - 1)]

\* the rule that matches at position i and the length of its match
Match(s, i) ==
    IF WhitespaceLen(s, i) > 0 THEN [type |-> "whitespace", n |-> WhitespaceLen(s, i)]
    ELSE IF FloatLen(s, i) > 0 THEN [type |-> "Float", n |-> FloatLen(s, i)]
    ELSE IF IntLen(s, i) > 0 THEN [type |-> "Int", n |-> IntLen(s, i)]
    ELSE IF StringLen(s, i) > 0 THEN [type |-> "String", n |-> StringLen(s, i)]
    ELSE IF IdentLen(s, i) > 0 THEN [type |-> "Ident", n |-> IdentLen(s, i)]
    ELSE IF OperatorsLen(s, i) > 0 THEN [type |-> "Operators", n |-> OperatorsLen(s, i)]
    ELSE IF PunctLen(s, i) > 0 THEN [type |-> "Punct", n |-> PunctLen(s, i)]
    ELSE [type |-> "", n |-> 0]

\* where the token that starts at each position ends; a position where no
\* rule matches, and the end of the text, stay where they are
After(s) == [i \in 1..(Len(s) + 1) |-> IF i > Len(s) THEN i ELSE i + Match(s, i).n]

\* the position k tokens after position i
RECURSIVE Skip(_, _, _)
Skip(after, i, k) ==
    IF k = 0 THEN i
    ELSE IF k = 1 THEN after[i]
    ELSE Let(Skip(after, i, k \div 2), LAMBDA j : Skip(after, j, k - (k \div 2)))

\* the token that starts at position i
TokenAt(s, i) == Let(Match(s, i), LAMBDA m : Tok(m.type, s, i, m.n))

\* the lexer consumes the text from its start, one match after the other; it
\* fails when it stops before the end
filterLexer(s) ==
    Let(After(s), LAMBDA after :
    Let([k \in 1..Len(s) |-> Skip(after, 1, k - 1)], LAMBDA starts :
        [ok |-> Skip(after, 1, Len(s)) > Len(s),
         toks |-> SelectSeq([k \in 1..Cardinality({starts[j] : j \in 1..Len(s)} \ {Len(s) + 1})
                               |-> TokenAt(s, starts[k])],
                            LAMBDA t : t.type # "whitespace")]))

\* ------------------------------------------------------------------- AST
\* Operator is the set of its flags that are true (the parser sets one).

OperatorFlags ==
    <<"Equal", "NotEqual", "GreaterOrEqual", "LessOrEqual", "Greater", "Less",
      "Like", "ILike", "NotLike", "In", "NotIn", "Is">>

\* a String that writes NotEqual the other way
OperatorStringAnsi(o) ==
    IF "Equal" \in o THEN <<"=">>
    ELSE IF "NotEqual" \in o THEN <<"<>">>
    ELSE IF "GreaterOrEqual" \in o THEN <<">=">>
    ELSE IF "LessOrEqual" \in o THEN <<"<=">>
    ELSE IF "Greater" \in o THEN <<">">>
    ELSE IF "Less" \in o THEN <<"<">>
    ELSE IF "Like" \in o THEN <<"LIKE">>
    ELSE IF "ILike" \in o THEN <<"ILIKE">>
    ELSE IF "NotLike" \in o THEN <<"NOT LIKE">>
    ELSE IF "In" \in o THEN <<"IN">>
    ELSE IF "NotIn" \in o THEN <<"NOT IN">>
    ELSE IF "Is" \in o THEN <<"IS">>
    ELSE <<>>

\* Operator.String: the first flag that is set, in the order of the switch
OperatorString(o) ==
    IF "Equal" \in o THEN <<"=">>
    ELSE IF "NotEqual" \in o THEN <<"!=">>
    ELSE IF "GreaterOrEqual" \in o THEN <<">=">>
    ELSE IF "LessOrEqual" \in o THEN <<"<=">>
    ELSE IF "Greater" \in o THEN <<">">>
    ELSE IF "Less" \in o THEN <<"<">>
    ELSE IF "Like" \in o THEN <<"LIKE">>
    ELSE IF "ILike" \in o THEN <<"ILIKE">>
    ELSE IF "NotLike" \in o THEN <<"NOT LIKE">>
    ELSE IF "In" \in o THEN <<"IN">>
    ELSE IF "NotIn" \in o THEN <<"NOT IN">>
    ELSE IF "Is" \in o THEN <<"IS">>
    ELSE <<>>

\* Boolean.Value
BooleanValue(b) == b.True

EmptyValue == [String |-> Nil, Number |-> Nil, Int |-> Nil, Boolean |-> Nil, Array |-> Nil]

StringValue(t) == [EmptyValue EXCEPT !.String = Some(t)]

IntValue(n) == [EmptyValue EXCEPT !.Int = Some(n)]

NumberValue(f) == [EmptyValue EXCEPT !.Number = Some(f)]

BoolValue(b) == [EmptyValue EXCEPT !.Boolean = Some([True |-> b, False |-> ~b])]

ArrayValue(vs) == [EmptyValue EXCEPT !.Array = Some([Values |-> vs])]

FieldPrimary(f) == [Field |-> f, SubExpr |-> Nil]

SubExprPrimary(e) == [Field |-> <<>>, SubExpr |-> Some(e)]

MkComparison(l, o, r, n) == [Left |-> l, Op |-> o, Right |-> r, Null |-> n]

\* strconv.ParseFloat of a Float token, kept as the exact decimal num/den
RECURSIVE Pow10(_)
Pow10(k) == IF k = 0 THEN 1 ELSE 10 * Pow10(k - 1)

RECURSIVE Reduce10(_)
Reduce10(f) ==
    IF f.den > 1 /\ f.num % 10 = 0 THEN Reduce10([num |-> f.num \div 10, den |-> f.den \div 10])
    ELSE f

ParseFloat(t) ==
    LET neg == t[1] = "-"
        u == IF t[1] \in {"-", "+"} THEN Tail(t) ELSE t
        ip == RunLen(u, 1, DigitSet)
        whole == SubSeq(u, 1, ip)
        frac == SubSeq(u, ip + 2, Len(u))
        m == Reduce10([num |-> AtoiDigits(whole \o frac, 0), den |-> Pow10(Len(frac))])
    IN  [num |-> IF neg THEN 0 - m.num ELSE m.num, den |-> m.den]

\* ---------------------------------------------------------------- parser
\* filterParser: the grammar of the struct tags of Filter, OrExpr, AndExpr,
\* Comparison, Primary, Operator, NullCheck, Value, Boolean and Array, as an
\* ordered-choice recursive descent over the tokens.  A parse result is
\* [ok, pos, node]; pos is the next unread token.

Fail(p) == [ok |-> FALSE, pos |-> p, node |-> <<>>]

Ok(p, n) == [ok |-> TRUE, pos |-> p, node |-> n]

\* a literal of the grammar matches a token by its text
TokIs(toks, p, lit) == p <= Len(toks) /\ Str(toks[p].value) = lit

TokType(toks, p, type) == p <= Len(toks) /\ toks[p].type = type

TwoToks(toks, p, a, b) == TokIs(toks, p, a) /\ TokIs(toks, p + 1, b)

ParseOperator(toks, p) ==
    IF TokIs(toks, p, "=") THEN Ok(p + 1, {"Equal"})
    ELSE IF TokIs(toks, p, "!=") \/ TokIs(toks, p, "<>") THEN Ok(p + 1, {"NotEqual"})
    ELSE IF TokIs(toks, p, ">=") THEN Ok(p + 1, {"GreaterOrEqual"})
    ELSE IF TokIs(toks, p, "<=") THEN Ok(p + 1, {"LessOrEqual"})
    ELSE IF TokIs(toks, p, ">") THEN Ok(p + 1, {"Greater"})
    ELSE IF TokIs(toks, p, "<") THEN Ok(p + 1, {"Less"})
    ELSE IF TokIs(toks, p, "LIKE") \/ TokIs(toks, p, "like") THEN Ok(p + 1, {"Like"})
    ELSE IF TokIs(toks, p, "ILIKE") \/ TokIs(toks, p, "ilike") THEN Ok(p + 1, {"ILike"})
    ELSE IF TwoToks(toks, p, "NOT", "LIKE") \/ TwoToks(toks, p, "not", "like")
         THEN Ok(p + 2, {"NotLike"})
    ELSE IF TokIs(toks, p, "IN") \/ TokIs(toks, p, "in") THEN Ok(p + 1, {"In"})
    ELSE IF TwoToks(toks, p, "NOT", "IN") \/ TwoToks(toks, p, "not", "in")
         THEN Ok(p + 2, {"NotIn"})
    ELSE IF TokIs(toks, p, "IS") \/ TokIs(toks, p, "is") THEN Ok(p + 1, {"Is"})
    ELSE Fail(p)

ParseNullCheck(toks, p) ==
    IF TokIs(toks, p, "NULL") \/ TokIs(toks, p, "null")
    THEN Ok(p + 1, [IsNull |-> TRUE, IsNotNull |-> FALSE])
    ELSE IF TwoToks(toks, p, "NOT", "NULL") \/ TwoToks(toks, p, "not", "null")
    THEN Ok(p + 2, [IsNull |-> FALSE, IsNotNull |-> TRUE])
    ELSE Fail(p)

ParseBoolean(toks, p) ==
    IF TokIs(toks, p, "true") \/ TokIs(toks, p, "TRUE")
    THEN Ok(p + 1, [True |-> TRUE, False |-> FALSE])
    ELSE IF TokIs(toks, p, "false") \/ TokIs(toks, p, "FALSE")
    THEN Ok(p + 1, [True |-> FALSE, False |-> TRUE])
    ELSE Fail(p)

RECURSIVE ParseValue(_, _)
RECURSIVE ParseArrayTail(_, _, _)

\* "(" @@ ( "," @@ )* ")"
ParseArray(toks, p) ==
    IF ~TokIs(toks, p, "(") THEN Fail(p)
    ELSE Let(ParseValue(toks, p + 1), LAMBDA first :
             IF ~first.ok THEN Fail(p)
             ELSE Let(ParseArrayTail(toks, first.pos, <<Some(first.node)>>), LAMBDA rest :
                      IF TokIs(toks, rest.pos, ")")
                      THEN Ok(rest.pos + 1, [Values |-> rest.node])
                      ELSE Fail(p)))

ParseArrayTail(toks, p, acc) ==
    IF TokIs(toks, p, ",")
    THEN Let(ParseValue(toks, p + 1), LAMBDA v :
             IF v.ok THEN ParseArrayTail(toks, v.pos, Append(acc, Some(v.node)))
             ELSE Ok(p, acc))
    ELSE Ok(p, acc)

\* @String | @Float | @Int | @@ (Boolean) | @@ (Array)
ParseValue(toks, p) ==
    IF TokType(toks, p, "String") THEN Ok(p + 1, StringValue(toks[p].value))
    ELSE IF TokType(toks, p, "Float") THEN Ok(p + 1, NumberValue(ParseFloat(toks[p].value)))
    ELSE IF TokType(toks, p, "Int") THEN Ok(p + 1, IntValue(Atoi(toks[p].value)))
    ELSE IF ParseBoolean(toks, p).ok
         THEN Ok(p + 1, [EmptyValue EXCEPT !.Boolean = Some(ParseBoolean(toks, p).node)])
    ELSE Let(ParseArray(toks, p), LAMBDA a :
             IF a.ok THEN Ok(a.pos, [EmptyValue EXCEPT !.Array = Some(a.node)])
             ELSE Fail(p))

\* a repetition that takes either logical operator as its separator
AnySeparator(toks, p) == TokIs(toks, p, "&&") \/ TokIs(toks, p, "||")

\* the separator of the repetition in AndExpr: ( "&&" @@ )*
AndSeparator(toks, p) == TokIs(toks, p, "&&")

\* the separator of the repetition in OrExpr: ( "||" @@ )*
OrSeparator(toks, p) == TokIs(toks, p, "||")

RECURSIVE ParseOrExpr(_, _)
RECURSIVE ParseOrTail(_, _, _)
RECURSIVE ParseAndExpr(_, _)
RECURSIVE ParseAndTail(_, _, _)
RECURSIVE ParseComparison(_, _)
RECURSIVE ParsePrimary(_, _)

\* @Ident | "(" @@ ")"
ParsePrimary(toks, p) ==
    IF TokType(toks, p, "Ident") THEN Ok(p + 1, FieldPrimary(toks[p].value))
    ELSE IF TokIs(toks, p, "(")
    THEN Let(ParseOrExpr(toks, p + 1), LAMBDA e :
             IF e.ok /\ TokIs(toks, e.pos, ")") THEN Ok(e.pos + 1, SubExprPrimary(e.node))
             ELSE Fail(p))
    ELSE Fail(p)

\* Left @@, Op @@?, Right @@?, Null @@?
ParseComparison(toks, p) ==
    Let(ParsePrimary(toks, p), LAMBDA l :
        IF ~l.ok THEN Fail(p)
        ELSE Let(ParseOperator(toks, l.pos), LAMBDA o :
             Let(ParseValue(toks, o.pos), LAMBDA r :
             Let(ParseNullCheck(toks, r.pos), LAMBDA n :
                 Ok(n.pos,
                    MkComparison(Some(l.node),
                                 IF o.ok THEN Some(o.node) ELSE Nil,
                                 IF r.ok THEN Some(r.node) ELSE Nil,
                                 IF n.ok THEN Some(n.node) ELSE Nil))))))

\* @@ ( "&&" @@ )*
ParseAndExpr(toks, p) ==
    Let(ParseComparison(toks, p), LAMBDA c :
        IF ~c.ok THEN Fail(p)
        ELSE Let(ParseAndTail(toks, c.pos, <<Some(c.node)>>), LAMBDA rest :
                 Ok(rest.pos, [Comparison |-> rest.node])))

ParseAndTail(toks, p, acc) ==
    IF AndSeparator(toks, p)
    THEN Let(ParseComparison(toks, p + 1), LAMBDA c :
             IF c.ok THEN ParseAndTail(toks, c.pos, Append(acc, Some(c.node)))
             ELSE Ok(p, acc))
    ELSE Ok(p, acc)

\* @@ ( "||" @@ )*
ParseOrExpr(toks, p) ==
    Let(ParseAndExpr(toks, p), LAMBDA a :
        IF ~a.ok THEN Fail(p)
        ELSE Let(ParseOrTail(toks, a.pos, <<Some(a.node)>>), LAMBDA rest :
                 Ok(rest.pos, [And |-> rest.node])))

ParseOrTail(toks, p, acc) ==
    IF OrSeparator(toks, p)
    THEN Let(ParseAndExpr(toks, p + 1), LAMBDA a :
             IF a.ok THEN ParseOrTail(toks, a.pos, Append(acc, Some(a.node)))
             ELSE Ok(p, acc))
    ELSE Ok(p, acc)

\* filterParser.ParseString: the whole token stream must be one Filter
ParseString(s) ==
    Let(filterLexer(s), LAMBDA lx :
        IF ~lx.ok THEN Fail(0)
        ELSE Let(ParseOrExpr(lx.toks, 1), LAMBDA e :
                 IF e.ok /\ e.pos = Len(lx.toks) + 1
                 THEN Ok(e.pos, [Expression |-> Some(e.node)])
                 ELSE Fail(e.pos)))

SyntaxMarker == "invalid filter syntax: "

\* an error text that leaves the input out
DiagnosticOnly(filter) == <<SyntaxMarker, "<parser diagnostic>">>

\* fmt.Errorf("invalid filter syntax: %s (filter: %s)", err.Error(), filter)
SyntaxError(filter) ==
    <<SyntaxMarker, "<parser diagnostic>", " (filter: ">> \o filter \o <<")">>

\* a ParseFilter that hands every input to the parser
ParseFilterUnguarded(filter) ==
    Let(ParseString(filter), LAMBDA r :
        IF ~r.ok THEN [ast |-> Nil, err |-> Some(SyntaxError(filter))]
        ELSE [ast |-> Some(r.node), err |-> Nil])

ParseFilter(filter) ==
    IF filter = <<>> THEN [ast |-> Nil, err |-> Nil]
    ELSE Let(ParseString(filter), LAMBDA r :
             IF ~r.ok THEN [ast |-> Nil, err |-> Some(SyntaxError(filter))]
             ELSE [ast |-> Some(r.node), err |-> Nil])

\* --------------------------------------------------------------- builder
\* A bound argument (Go `any`): k is its dynamic type.

NilArg == [k |-> "nil", s |-> <<>>, i |-> 0, d |-> 1, b |-> FALSE]

StringArg(t) == [NilArg EXCEPT !.k = "string", !.s = t]

IntArg(n) == [NilArg EXCEPT !.k = "int", !.i = n]

FloatArg(f) == [NilArg EXCEPT !.k = "float64", !.i = f.num, !.d = f.den]

BoolArg(x) == [NilArg EXCEPT !.k = "bool", !.b = x]

NewQueryBuilder(table) ==
    [table |-> table, fields |-> <<>>, filter |-> Nil, sort |-> <<>>, limit |-> 0,
     offset |-> 0, args |-> <<>>, placeholderStyle |-> <<"?">>, placeholderCount |-> 0]

\* a String node bound as it is, with its quotes
KeepQuotes(s) == s

\* the value a String node binds: s[1 : len(s)-1] when s starts with a quote
StripQuotes(s) ==
    IF Len(s) >= 2 /\ s[1] \in {"'", "\""} THEN SubSeq(s, 2, Len(s) - 1) ELSE s

extractValue(val) ==
    IF IsNil(val) THEN NilArg
    ELSE IF ~IsNil(val[1].String) THEN StringArg(StripQuotes(val[1].String[1]))
    ELSE IF ~IsNil(val[1].Int) THEN IntArg(val[1].Int[1])
    ELSE IF ~IsNil(val[1].Number) THEN FloatArg(val[1].Number[1])
    ELSE IF ~IsNil(val[1].Boolean) THEN BoolArg(BooleanValue(val[1].Boolean[1]))
    ELSE NilArg

\* A step of the tree walk returns the builder as it left it, the text it
\* rendered, and whether it panicked (placeholderStyle[:1] of an empty style).
Built(b, sql) == [qb |-> b, sql |-> sql, panic |-> FALSE]

Panicked(b) == [qb |-> b, sql |-> <<>>, panic |-> TRUE]

\* a counter that is read and not incremented
SameCount(b) == b.placeholderCount

\* getPlaceholder's increment of the counter
NextCount(b) == b.placeholderCount + 1

\* a rendering that writes the value just bound into the text
InlineLastArg(b) ==
    Built(b, IF b.args[Len(b.args)].k = "string"
             THEN <<"'">> \o b.args[Len(b.args)].s \o <<"'">>
             ELSE IF b.args[Len(b.args)].b THEN <<"TRUE">>
             ELSE Itoa(b.args[Len(b.args)].i) \o <<"/">> \o Itoa(b.args[Len(b.args)].d))

getPlaceholder(b) ==
    IF b.placeholderStyle = <<"?">> THEN Built(b, <<"?">>)
    ELSE IF b.placeholderStyle = <<>> THEN Panicked([b EXCEPT !.placeholderCount = NextCount(b)])
    ELSE Built([b EXCEPT !.placeholderCount = NextCount(b)],
               <<b.placeholderStyle[1]>> \o Itoa(NextCount(b)))

\* an argument list that grows at its front
PrependArg(b, v) == [b EXCEPT !.args = <<v>> \o b.args]

\* qb.args = append(qb.args, v)
AppendArg(b, v) == [b EXCEPT !.args = Append(b.args, v)]

\* a loop that binds the first element of the array and stops
buildInListOnce(b, vals, acc) ==
    IF vals = <<>> THEN [qb |-> b, parts |-> acc, panic |-> FALSE]
    ELSE Let(getPlaceholder(AppendArg(b, extractValue(Head(vals)))), LAMBDA ph :
             [qb |-> ph.qb, parts |-> Append(acc, ph.sql), panic |-> ph.panic])

\* the loop over comp.Right.Array.Values; acc is the placeholders so far
RECURSIVE buildInList(_, _, _)
buildInList(b, vals, acc) ==
    IF vals = <<>> THEN [qb |-> b, parts |-> acc, panic |-> FALSE]
    ELSE Let(getPlaceholder(AppendArg(b, extractValue(Head(vals)))), LAMBDA ph :
             IF ph.panic THEN [qb |-> ph.qb, parts |-> acc, panic |-> TRUE]
             ELSE buildInList(ph.qb, Tail(vals), Append(acc, ph.sql)))

\* the field and operator part of a rendered comparison
ComparisonHead(field, operator) == field \o <<" ">> \o operator

\* a join that puts its parentheses around a single part as well
GroupAlways(parts, sep) ==
    IF Len(parts) = 0 THEN <<>>
    ELSE <<"(">> \o Join(parts, <<sep>>) \o <<")">>

\* the return of the joined parts of an AND or OR group
Group(parts, sep) ==
    IF Len(parts) = 0 THEN <<>>
    ELSE IF Len(parts) = 1 THEN parts[1]
    ELSE <<"(">> \o Join(parts, <<sep>>) \o <<")">>

RECURSIVE buildOrExpr(_, _)
RECURSIVE buildOrParts(_, _, _)
RECURSIVE buildAndExpr(_, _)
RECURSIVE buildAndParts(_, _, _)
RECURSIVE buildComparison(_, _)

buildComparison(b, comp) ==
    IF IsNil(comp) THEN Built(b, <<>>)
    ELSE LET c == comp[1]
             field == IF ~IsNil(c.Left) THEN c.Left[1].Field ELSE <<>>
         IN  IF ~IsNil(c.Left) /\ ~IsNil(c.Left[1].SubExpr)
             THEN buildOrExpr(b, c.Left[1].SubExpr)
             ELSE IF field = <<>> THEN Built(b, <<>>)
             ELSE IF ~IsNil(c.Null) /\ c.Null[1].IsNull THEN Built(b, field \o <<" IS NULL">>)
             ELSE IF ~IsNil(c.Null) /\ c.Null[1].IsNotNull
                  THEN Built(b, field \o <<" IS NOT NULL">>)
             ELSE IF IsNil(c.Op) \/ IsNil(c.Right) THEN Built(b, <<>>)
             ELSE IF ("In" \in c.Op[1] \/ "NotIn" \in c.Op[1]) /\ ~IsNil(c.Right[1].Array)
                  THEN Let(buildInList(b, c.Right[1].Array[1].Values, <<>>), LAMBDA l :
                           IF l.panic THEN Panicked(l.qb)
                           ELSE Built(l.qb,
                                      ComparisonHead(field, OperatorString(c.Op[1]))
                                          \o <<" (">> \o Join(l.parts, <<", ">>) \o <<")">>))
             ELSE Let(getPlaceholder(AppendArg(b, extractValue(c.Right))), LAMBDA ph :
                      IF ph.panic THEN Panicked(ph.qb)
                      ELSE Built(ph.qb,
                                 ComparisonHead(field, OperatorString(c.Op[1]))
                                     \o <<" ">> \o ph.sql))

buildAndParts(b, comps, acc) ==
    IF comps = <<>> THEN [qb |-> b, parts |-> acc, panic |-> FALSE]
    ELSE Let(buildComparison(b, Head(comps)), LAMBDA r :
             IF r.panic THEN [qb |-> r.qb, parts |-> acc, panic |-> TRUE]
             ELSE buildAndParts(r.qb, Tail(comps),
                                IF r.sql # <<>> THEN Append(acc, r.sql) ELSE acc))

buildAndExpr(b, expr) ==
    IF IsNil(expr) THEN Built(b, <<>>)
    ELSE Let(buildAndParts(b, expr[1].Comparison, <<>>), LAMBDA l :
             IF l.panic THEN Panicked(l.qb) ELSE Built(l.qb, Group(l.parts, " AND ")))

buildOrParts(b, ands, acc) ==
    IF ands = <<>> THEN [qb |-> b, parts |-> acc, panic |-> FALSE]
    ELSE Let(buildAndExpr(b, Head(ands)), LAMBDA r :
             IF r.panic THEN [qb |-> r.qb, parts |-> acc, panic |-> TRUE]
             ELSE buildOrParts(r.qb, Tail(ands),
                               IF r.sql # <<>> THEN Append(acc, r.sql) ELSE acc))

buildOrExpr(b, expr) ==
    IF IsNil(expr) THEN Built(b, <<>>)
    ELSE Let(buildOrParts(b, expr[1].And, <<>>), LAMBDA l :
             IF l.panic THEN Panicked(l.qb) ELSE Built(l.qb, Group(l.parts, " OR ")))

\* a build that starts from what the last one left
KeepArgs(b) == b

\* a reset of the arguments that leaves the counter where it is
ResetArgsOnly(b) == [b EXCEPT !.args = <<>>]

\* the reset at the start of ToSQL and Where
ResetArgs(b) == [b EXCEPT !.args = <<>>, !.placeholderCount = 0]

\* a SELECT of every column, whatever the fields
SelectStar(b) == <<"SELECT ", "*", " FROM ">> \o b.table

SelectClause(b) ==
    <<"SELECT ">> \o (IF Len(b.fields) > 0 THEN Join(b.fields, <<", ">>) ELSE <<"*">>)
        \o <<" FROM ">> \o b.table

\* an entry that is ascending whatever its first character
OrderEntryAsc(s) == s \o <<" ASC">>

OrderEntry(s) == IF HasDashPrefix(s) THEN Tail(s) \o <<" DESC">> ELSE s \o <<" ASC">>

OrderClause(b) ==
    IF Len(b.sort) > 0
    THEN <<" ORDER BY ">> \o Join([i \in 1..Len(b.sort) |-> OrderEntry(b.sort[i])], <<", ">>)
    ELSE <<>>

\* a limit clause for every limit that is not zero
LimitClauseNonZero(b) == IF b.limit # 0 THEN <<" LIMIT ">> \o Itoa(b.limit) ELSE <<>>

LimitClause(b) == IF b.limit > 0 THEN <<" LIMIT ">> \o Itoa(b.limit) ELSE <<>>

OffsetClause(b) == IF b.offset > 0 THEN <<" OFFSET ">> \o Itoa(b.offset) ELSE <<>>

\* The value of a call: the builder after it and what it returned.
\* argsNil tells a nil argument list from an empty one.
Result(b, sql, args, argsNil, err, panic) ==
    [qb |-> b, sql |-> sql, args |-> args, argsNil |-> argsNil, err |-> err, panic |-> panic]

\* QueryBuilder.ToSQL
ToSQL(b) ==
    Let(ResetArgs(b), LAMBDA b0 :
    Let(IF ~IsNil(b0.filter) /\ ~IsNil(b0.filter[1].Expression)
        THEN buildOrExpr(b0, b0.filter[1].Expression)
        ELSE Built(b0, <<>>), LAMBDA w :
        IF w.panic THEN Result(w.qb, <<>>, <<>>, TRUE, Nil, TRUE)
        ELSE Result(w.qb,
                    SelectClause(b0)
                        \o (IF w.sql # <<>> THEN <<" WHERE ">> \o w.sql ELSE <<>>)
                        \o OrderClause(b0) \o LimitClause(b0) \o OffsetClause(b0),
                    w.qb.args, FALSE, Nil, FALSE)))

\* a Where that builds on the arguments and the counter of the call before
WhereNoReset(b) ==
    IF IsNil(b.filter) \/ IsNil(b.filter[1].Expression)
    THEN Result(b, <<>>, <<>>, TRUE, Nil, FALSE)
    ELSE Let(buildOrExpr(b, b.filter[1].Expression), LAMBDA w :
             IF w.panic THEN Result(w.qb, <<>>, <<>>, TRUE, Nil, TRUE)
             ELSE Result(w.qb, w.sql, w.qb.args, FALSE, Nil, FALSE))

\* QueryBuilder.Where
Where(b) ==
    Let(ResetArgs(b), LAMBDA b0 :
        IF IsNil(b0.filter) \/ IsNil(b0.filter[1].Expression)
        THEN Result(b0, <<>>, <<>>, TRUE, Nil, FALSE)
        ELSE Let(buildOrExpr(b0, b0.filter[1].Expression), LAMBDA w :
                 IF w.panic THEN Result(w.qb, <<>>, <<>>, TRUE, Nil, TRUE)
                 ELSE Result(w.qb, w.sql, w.qb.args, FALSE, Nil, FALSE)))

\* ------------------------------------------------------------- validator
\* Validator: allowedFields is the key set of the map, maxLimit and
\* maxOffset are *int.

NewValidator == [allowedFields |-> {}, maxLimit |-> Nil, maxOffset |-> Nil]

WithAllowedFields(fields) == [opt |-> "WithAllowedFields", fields |-> fields, max |-> 0]

WithMaxLimit(max) == [opt |-> "WithMaxLimit", fields |-> <<>>, max |-> max]

WithMaxOffset(max) == [opt |-> "WithMaxOffset", fields |-> <<>>, max |-> max]

ApplyOption(v, o) ==
    IF o.opt = "WithAllowedFields"
    THEN [v EXCEPT !.allowedFields = @ \cup {o.fields[i] : i \in 1..Len(o.fields)}]
    ELSE IF o.opt = "WithMaxLimit" THEN [v EXCEPT !.maxLimit = Some(o.max)]
    ELSE [v EXCEPT !.maxOffset = Some(o.max)]

\* QueryBuilder.Validate(opts...)
RECURSIVE ApplyOptions(_, _)
ApplyOptions(v, opts) ==
    IF opts = <<>> THEN v ELSE ApplyOptions(ApplyOption(v, Head(opts)), Tail(opts))

Validate(opts) == ApplyOptions(NewValidator, opts)

\* Validator.isFieldAllowed
isFieldAllowed(v, field) ==
    IF Cardinality(v.allowedFields) = 0 THEN TRUE ELSE field \in v.allowedFields

\* "field '%s' is not allowed. Allowed fields: %v"
FieldError(field) ==
    <<"field '">> \o field \o <<"' is not allowed. Allowed fields: ", "<allowedFieldsList>">>

\* "limit %d exceeds maximum allowed limit of %d"
LimitError(limit, max) ==
    <<"limit ">> \o Itoa(limit) \o <<" exceeds maximum allowed limit of ">> \o Itoa(max)

\* "offset %d exceeds maximum allowed offset of %d"
OffsetError(offset, max) ==
    <<"offset ">> \o Itoa(offset) \o <<" exceeds maximum allowed offset of ">> \o Itoa(max)

\* Validator.validateFields: the error of the first field that is not allowed
RECURSIVE validateFields(_, _)
validateFields(v, fields) ==
    IF fields = <<>> THEN Nil
    ELSE IF ~isFieldAllowed(v, Head(fields)) THEN Some(FieldError(Head(fields)))
    ELSE validateFields(v, Tail(fields))

\* Validator.validateSort
RECURSIVE validateSort(_, _)
validateSort(v, sort) ==
    IF sort = <<>> THEN Nil
    ELSE IF ~isFieldAllowed(v, TrimDashPrefix(Head(sort)))
         THEN Some(FieldError(TrimDashPrefix(Head(sort))))
    ELSE validateSort(v, Tail(sort))

\* the field name validateComparison looks up
ValidatedName(field) == TrimSpace(field)

\* a validation of comparisons that does not descend into a sub-expression
validateFieldOnly(v, comp) ==
    IF IsNil(comp) \/ IsNil(comp[1].Left) THEN Nil
    ELSE IF comp[1].Left[1].Field # <<>>
            /\ ~isFieldAllowed(v, ValidatedName(comp[1].Left[1].Field))
         THEN Some(FieldError(ValidatedName(comp[1].Left[1].Field)))
    ELSE Nil

RECURSIVE validateOrExpr(_, _)
RECURSIVE validateOrList(_, _)
RECURSIVE validateAndExpr(_, _)
RECURSIVE validateAndList(_, _)
RECURSIVE validateComparison(_, _)

validateComparison(v, comp) ==
    IF IsNil(comp) THEN Nil
    ELSE IF IsNil(comp[1].Left) THEN Nil
    ELSE LET l == comp[1].Left[1]
         IN  IF l.Field # <<>> /\ ~isFieldAllowed(v, ValidatedName(l.Field))
             THEN Some(FieldError(ValidatedName(l.Field)))
             ELSE IF ~IsNil(l.SubExpr) THEN validateOrExpr(v, l.SubExpr)
             ELSE Nil

validateAndList(v, comps) ==
    IF comps = <<>> THEN Nil
    ELSE Let(validateComparison(v, Head(comps)), LAMBDA e :
             IF ~IsNil(e) THEN e ELSE validateAndList(v, Tail(comps)))

validateAndExpr(v, expr) ==
    IF IsNil(expr) THEN Nil ELSE validateAndList(v, expr[1].Comparison)

validateOrList(v, ands) ==
    IF ands = <<>> THEN Nil
    ELSE Let(validateAndExpr(v, Head(ands)), LAMBDA e :
             IF ~IsNil(e) THEN e ELSE validateOrList(v, Tail(ands)))

validateOrExpr(v, expr) ==
    IF IsNil(expr) THEN Nil ELSE validateOrList(v, expr[1].And)

\* Validator.validateFilter
validateFilter(v, filter) ==
    IF IsNil(filter) \/ IsNil(filter[1].Expression) THEN Nil
    ELSE validateOrExpr(v, filter[1].Expression)

\* a ceiling that also refuses the maximum itself
ReachesOrExceeds(value, max) == value >= max

\* the comparison of validateLimitOffset: the value is over the maximum
Exceeds(value, max) == value > max

\* Validator.validateLimitOffset
validateLimitOffset(v, b) ==
    IF ~IsNil(v.maxLimit) /\ Exceeds(b.limit, v.maxLimit[1])
    THEN Some(LimitError(b.limit, v.maxLimit[1]))
    ELSE IF ~IsNil(v.maxOffset) /\ Exceeds(b.offset, v.maxOffset[1])
    THEN Some(OffsetError(b.offset, v.maxOffset[1]))
    ELSE Nil

\* a rejection that still hands out what the builder renders
RejectedWithOutput(b, err) == [ToSQL(b) EXCEPT !.err = err]

\* a rejection made after the builder was reset
RejectedAfterReset(b, err) == Result(ResetArgs(b), <<>>, <<>>, TRUE, err, FALSE)

\* what Validator.ToSQL returns when a check fails
Rejected(b, err) == Result(b, <<>>, <<>>, TRUE, err, FALSE)

\* checks that take an empty allow-list to allow no field at all
ValidationClosed(v, b) ==
    IF Cardinality(v.allowedFields) = 0 /\ Len(b.fields) > 0
    THEN Some(FieldError(Head(b.fields)))
    ELSE IF Cardinality(v.allowedFields) = 0 /\ ~IsNil(b.filter)
    THEN validateFilter([v EXCEPT !.allowedFields = {<<>>}], b.filter)
    ELSE IF Cardinality(v.allowedFields) = 0 /\ Len(b.sort) > 0
    THEN Some(FieldError(TrimDashPrefix(Head(b.sort))))
    ELSE validateLimitOffset(v, b)

\* the four checks of Validator.ToSQL, in order: the first error, or Nil
Validation(v, b) ==
    LET configured == Cardinality(v.allowedFields) > 0
    IN  Let(IF Len(b.fields) > 0 /\ configured THEN validateFields(v, b.fields) ELSE Nil,
            LAMBDA e1 :
        IF ~IsNil(e1) THEN e1
        ELSE Let(IF ~IsNil(b.filter) /\ configured THEN validateFilter(v, b.filter) ELSE Nil,
                 LAMBDA e2 :
        IF ~IsNil(e2) THEN e2
        ELSE Let(IF Len(b.sort) > 0 /\ configured THEN validateSort(v, b.sort) ELSE Nil,
                 LAMBDA e3 :
        IF ~IsNil(e3) THEN e3
        ELSE validateLimitOffset(v, b))))

\* Validator.ToSQL
ValidatorToSQL(v, b) ==
    Let(Validation(v, b), LAMBDA err :
        IF ~IsNil(err) THEN Rejected(b, err) ELSE ToSQL(b))

\* ----------------------------------------------------------------- query
\* Parse(params url.Values, table string): a request is the text of its five
\* parameters, the empty text for one that is absent (url.Values.Get).

\* strconv.Atoi returns no error: digits after an optional sign
AtoiOK(t) ==
    LET digits == IF t # <<>> /\ t[1] \in {"-", "+"} THEN Tail(t) ELSE t
    IN  digits # <<>> /\ \A i \in 1..Len(digits) : digits[i] \in DigitSet

parseCommaSeparatedList(value) ==
    IF value = <<>> THEN <<>>
    ELSE Let(SplitComma(value, <<>>), LAMBDA parts :
             [i \in 1..Len(parts) |-> TrimSpace(parts[i])])

parseIntParam(value) == IF value # <<>> /\ AtoiOK(value) THEN Atoi(value) ELSE 0

parseQueryParams(p) ==
    [Fields |-> parseCommaSeparatedList(p.fields),
     Filter |-> p.filter,
     Sort |-> parseCommaSeparatedList(p.sort),
     Limit |-> parseIntParam(p.limit),
     Offset |-> parseIntParam(p.offset)]

\* the builder after it and the error returned
parseAndSetFilter(b, filter) ==
    IF filter = <<>> THEN [qb |-> b, err |-> Nil]
    ELSE Let(ParseFilter(filter), LAMBDA r :
             IF ~IsNil(r.err) THEN [qb |-> b, err |-> r.err]
             ELSE [qb |-> [b EXCEPT !.filter = r.ast], err |-> Nil])

\* Parse returns [qb, err]: qb is Nil when err is not
QueryParse(p, table) ==
    Let(parseQueryParams(p), LAMBDA qp :
    Let(parseAndSetFilter(NewQueryBuilder(table), qp.Filter), LAMBDA f :
        IF ~IsNil(f.err) THEN [qb |-> Nil, err |-> f.err]
        ELSE [qb |-> Some([f.qb EXCEPT
                              !.fields = IF Len(qp.Fields) > 0 THEN qp.Fields ELSE @,
                              !.sort = IF Len(qp.Sort) > 0 THEN qp.Sort ELSE @,
                              !.limit = IF qp.Limit > 0 THEN qp.Limit ELSE @,
                              !.offset = IF qp.Offset > 0 THEN qp.Offset ELSE @]),
              err |-> Nil]))

\* ---------------------------------------------------------------- inputs
\* The values the calls are made with.

MaxLimit == 1

Table == Chars("users")

FieldLists == {<<>>, <<Chars("id"), Chars("pw")>>}

SortLists == {<<>>, <<Chars("-a"), Chars("id")>>, <<Chars("--a"), Chars("b"), Chars("-id")>>}

Limits == (0 - 1)..MaxLimit

Styles == {Chars("?"), Chars("$1"), Chars(":1")}

FilterTexts ==
    {Chars("a=1"),
     Chars("(a>=18 && c='US') || b IN (1,'x') && d IS NULL"),
     Chars("pw LIKE 'x%' && ((a=2.5 || b!=true))")}

\* a filter built by hand: one comparison `field = 1`
OneComparison(field) ==
    [Expression |-> Some([And |-> <<Some([Comparison |->
        <<Some(MkComparison(Some(FieldPrimary(field)), Some({"Equal"}),
                            Some(IntValue(1)), Nil))>>])>>])]

\* ASTs that only a caller's own construction gives: no expression, and a
\* field name with blanks around it
HandBuilt == {[Expression |-> Nil], OneComparison(Chars(" a "))}

\* the option lists Validate is called with
AllowOptions ==
    {<<>>,
     <<WithAllowedFields(<<>>)>>,
     <<WithAllowedFields(<<Chars("b"), Chars("d"), Chars("id")>>)>>,
     <<WithAllowedFields(<<Chars("a"), Chars("b"), Chars("c"), Chars("d"), Chars("id"),
                          Chars("pw")>>)>>}

\* no ceiling, one on the limit, one on the offset, or one on both
CeilingOptions ==
    {<<>>}
        \cup {<<WithMaxLimit(m)>> : m \in 0..MaxLimit}
        \cup {<<WithMaxOffset(m)>> : m \in 0..MaxLimit}
        \cup {<<WithMaxLimit(m), WithMaxOffset(m)>> : m \in 0..MaxLimit}

OptionLists == {a \o c : a \in AllowOptions, c \in CeilingOptions}

Filters == {Nil} \cup {ParseFilter(t).ast : t \in FilterTexts} \cup {Some(f) : f \in HandBuilt}

\* Filter texts by construction: chains of up to MaxTerms comparisons joined
\* by && and ||, and the same with one parenthesized group.
MaxTerms == 2

Leaves ==
    {Chars("a=1"), Chars("b IN ('x',2.5)"), Chars("c NOT IN (true)"), Chars("d IS NULL")}

Connectives == {Chars(" && "), Chars(" || ")}

RECURSIVE Chains(_)
Chains(n) ==
    IF n <= 1 THEN Leaves
    ELSE Let(Chains(n - 1), LAMBDA shorter :
             shorter \cup {c \o op \o l : c \in shorter, op \in Connectives, l \in Leaves})

Grouped ==
    {Chars("(") \o l \o Chars(")") : l \in Leaves}
        \cup {Chars("(") \o l \o op \o m \o Chars(")") :
                 l \in Leaves, op \in Connectives, m \in Leaves}

Nested ==
    {Chars("(") \o g \o Chars(")") : g \in Grouped}
        \cup {g \o op \o l : g \in Grouped, op \in Connectives, l \in Leaves}
        \cup {l \o op \o g : g \in Grouped, op \in Connectives, l \in Leaves}

\* the two groupings of the operators guide: a doubly parenthesized
\* comparison, and an OR of two parenthesized ANDs
GroupExamples ==
    {Chars("((a=1))"), Chars("(a>=1 && b=\"x\") || (c>=2 && d=\"y\")")}

RenderTexts == Chains(MaxTerms) \cup Nested \cup GroupExamples

\* texts the parser accepts into comparisons the builder renders in part or
\* not at all, or binds no value for
OddTexts ==
    {Chars("a 1"), Chars("a = (1,2)"), Chars("a IN 5"), Chars("a = 5 NULL"), Chars("LIKE"),
     Chars("a = 1 && b"), Chars("a IN ((1,2),3)"), Chars("a LIKE ('x')")}

\* texts of fields with nothing compared to them
BareTexts == {Chars("a"), Chars("(a)"), Chars("a && b"), Chars("a || b=1")}

\* the texts whose AST a builder is given
AcceptedTexts == RenderTexts \cup OddTexts \cup BareTexts

\* the ASTs rendered without their text
RenderASTs == HandBuilt \cup {ParseFilter(t).ast[1] : t \in OddTexts}

\* every spelling of an operator, with the SQL text it stands for
Spelling(text, canon) == [text |-> Chars(text), canon |-> canon]

Spellings ==
    {Spelling("=", "="), Spelling("!=", "!="), Spelling("<>", "!="),
     Spelling(">=", ">="), Spelling("<=", "<="), Spelling(">", ">"), Spelling("<", "<"),
     Spelling("LIKE", "LIKE"), Spelling("like", "LIKE"),
     Spelling("ILIKE", "ILIKE"), Spelling("ilike", "ILIKE"),
     Spelling("NOT LIKE", "NOT LIKE"), Spelling("not like", "NOT LIKE"),
     Spelling("IN", "IN"), Spelling("in", "IN"),
     Spelling("NOT IN", "NOT IN"), Spelling("not in", "NOT IN"),
     Spelling("IS", "IS"), Spelling("is", "IS")}

TakesList(sp) == sp.canon \in {"IN", "NOT IN"}

\* a comparison of the field a written with a spelling
SpellingText(sp) ==
    Chars("a ") \o sp.text \o (IF TakesList(sp) THEN Chars(" (1)") ELSE Chars(" 1"))

OperatorTexts == {SpellingText(sp) : sp \in Spellings}

\* the texts ParseFilter is called with.  Chains without parentheses:
ChainTexts == Chains(MaxTerms + 1)

\* no tokens at all
BlankTexts == {<<>>, Chars(" "), Chars("   "), <<"\t">>, <<" ", "\n", " ">>}

\* NULL or NOT NULL after a field, after an operator that is not IS, or after
\* a value
NullSuffixTexts ==
    {Chars("age NULL"), Chars("age = NULL"), Chars("age != NULL"), Chars("age = 5 NULL"),
     Chars("age NOT NULL"), Chars("age > not null"), Chars("(age = NULL)"),
     Chars("a=1 && age != NULL")}

\* literal tokens: strings in both quotes (empty, with a blank, with the other
\* quote inside), integers and floats with and without a sign, the booleans
LiteralTokens ==
    {Chars("'x'"), Chars("\"x\""), Chars("''"), Chars("\"\""), Chars("'a b'"),
     Chars("'it\"s'"), Chars("\"it's\""), Chars("'%;--'"),
     Chars("5"), Chars("-5"), Chars("+5"), Chars("0"), Chars("120"),
     Chars("2.5"), Chars("-0.5"), Chars("+1.50"),
     Chars("true"), Chars("TRUE"), Chars("false"), Chars("FALSE")}

\* a comparison with one literal, and an IN list of two
LiteralTexts ==
    {Chars("a = ") \o t : t \in LiteralTokens}
        \cup {Chars("a IN (") \o t \o Chars(", ") \o u \o Chars(")") :
                 t \in LiteralTokens, u \in LiteralTokens}

\* a parenthesis without its partner
UnmatchedParen ==
    UNION {{Chars("(") \o c, c \o Chars(")"), Chars("((") \o c \o Chars(")"),
            Chars("(") \o c \o Chars("))")} : c \in Chains(MaxTerms)}

\* a logical operator with a comparison on one side only
DanglingOperator ==
    UNION {{c \o Chars(" &&"), c \o Chars(" ||"), Chars("&& ") \o c, Chars("|| ") \o c,
            c \o Chars(" && || ") \o c} : c \in Chains(MaxTerms)}

\* an array with no element, without its end, or without a comma
BadArrays ==
    {Chars("a IN ()"), Chars("a NOT IN ()"), Chars("a in ( )"),
     Chars("a IN ("), Chars("a IN ('x'"), Chars("a IN ('x',"), Chars("a NOT IN (1, 2"),
     Chars("a IN ('x' 'y')"), Chars("a IN (1 2)"), Chars("a NOT IN (true false)"),
     Chars("a IN (1, 2 3)")}

\* something that is no operator where one is due
UnknownOperator ==
    {Chars("a ~~ 1"), Chars("a >> 1"), Chars("a == 1"), Chars("a =! 1"), Chars("a => 1"),
     Chars("a ~ 1"), Chars("a ! 1"), Chars("a LIKES 'x'"), Chars("a & b"), Chars("a | b"),
     Chars("a=1 & b=2"), Chars("a=1 | b=2"), Chars("a @ 1"), Chars("a % 'x'")}

\* an operator of the lexer's Operators class and nothing else
LoneOperator ==
    TwoCharOperators \cup {<<"=">>, <<">">>, <<"<">>}
        \cup {<<" ">> \o o \o <<" ">> : o \in TwoCharOperators}

\* the inputs of TestParseFilter_ErrorCases
ErrorCases ==
    {Chars("(age>18"), Chars("age ~~ 18"), Chars("age >> 18"), Chars(">18"),
     Chars("status IN ()"), Chars("status IN ('active'"),
     Chars("status IN ('active' 'pending')"), Chars("age>18 & status='active'"),
     Chars("age>18 | status='active'"), Chars("&&"), Chars("age>18 &&"),
     Chars("&& age>18")}

\* a malformed comparison inside a chain
Embedded ==
    {l \o op \o bad : l \in Leaves, op \in Connectives, bad \in BadArrays \cup UnknownOperator}

Malformed ==
    UnmatchedParen \cup DanglingOperator \cup BadArrays \cup UnknownOperator
        \cup LoneOperator \cup ErrorCases \cup Embedded

ParserInputs ==
    ChainTexts \cup Nested \cup BlankTexts \cup OddTexts \cup Malformed \cup OperatorTexts
        \cup NullSuffixTexts \cup BareTexts

\* --------------------------------------------------------------- schema
\* Parse(params url.Values, s *schema.Schema): the front end that checks every
\* requested field against the schema's allowed set before it sets anything.

\* NewSchema(table)
NewSchema(table) == [table |-> table, allowedFields |-> {}]

\* Schema.AllowFields(fields...)
AllowFields(s, fields) ==
    [s EXCEPT !.allowedFields = @ \cup {fields[i] : i \in 1..Len(fields)}]

\* a lookup that lets every field through while nothing is allowed
IsFieldAllowedOrOpen(s, field) == s.allowedFields = {} \/ field \in s.allowedFields

\* Schema.IsFieldAllowed: the map lookup s.allowedFields[field]
IsFieldAllowed(s, field) == field \in s.allowedFields

\* Schema.ValidateFields
RECURSIVE Schema_ValidateFields(_, _)
Schema_ValidateFields(s, fields) ==
    IF fields = <<>> THEN Nil
    ELSE IF ~IsFieldAllowed(s, Head(fields)) THEN Some(FieldError(Head(fields)))
    ELSE Schema_ValidateFields(s, Tail(fields))

RECURSIVE Schema_validateOrExpr(_, _)
RECURSIVE Schema_validateOrList(_, _)
RECURSIVE Schema_validateAndExpr(_, _)
RECURSIVE Schema_validateAndList(_, _)
RECURSIVE Schema_validateComparison(_, _)

\* Schema.validateComparison
Schema_validateComparison(s, comp) ==
    IF IsNil(comp) THEN Nil
    ELSE IF IsNil(comp[1].Left) THEN Nil
    ELSE LET l == comp[1].Left[1]
         IN  IF l.Field # <<>> /\ ~IsFieldAllowed(s, TrimSpace(l.Field))
             THEN Some(FieldError(TrimSpace(l.Field)))
             ELSE IF ~IsNil(l.SubExpr) THEN Schema_validateOrExpr(s, l.SubExpr)
             ELSE Nil

Schema_validateAndList(s, comps) ==
    IF comps = <<>> THEN Nil
    ELSE Let(Schema_validateComparison(s, Head(comps)), LAMBDA e :
             IF ~IsNil(e) THEN e ELSE Schema_validateAndList(s, Tail(comps)))

\* Schema.validateAndExpr
Schema_validateAndExpr(s, expr) ==
    IF IsNil(expr) THEN Nil ELSE Schema_validateAndList(s, expr[1].Comparison)

Schema_validateOrList(s, ands) ==
    IF ands = <<>> THEN Nil
    ELSE Let(Schema_validateAndExpr(s, Head(ands)), LAMBDA e :
             IF ~IsNil(e) THEN e ELSE Schema_validateOrList(s, Tail(ands)))

\* Schema.validateOrExpr
Schema_validateOrExpr(s, expr) ==
    IF IsNil(expr) THEN Nil ELSE Schema_validateOrList(s, expr[1].And)

\* Schema.ValidateFilter
Schema_ValidateFilter(s, filter) ==
    IF IsNil(filter) \/ IsNil(filter[1].Expression) THEN Nil
    ELSE Schema_validateOrExpr(s, filter[1].Expression)

\* parseAndSetFilter(qb, filter, s): parse, validate against the schema, set
parseAndSetSchemaFilter(b, filter, s) ==
    IF filter = <<>> THEN [qb |-> b, err |-> Nil]
    ELSE Let(ParseFilter(filter), LAMBDA r :
             IF ~IsNil(r.err) THEN [qb |-> b, err |-> r.err]
             ELSE Let(Schema_ValidateFilter(s, r.ast), LAMBDA e :
                      IF ~IsNil(e) THEN [qb |-> b, err |-> e]
                      ELSE [qb |-> [b EXCEPT !.filter = r.ast], err |-> Nil]))

\* validateAndSetFields
validateAndSetFields(b, fields, s) ==
    IF Len(fields) = 0 THEN [qb |-> b, err |-> Nil]
    ELSE Let(Schema_ValidateFields(s, fields), LAMBDA e :
             IF ~IsNil(e) THEN [qb |-> b, err |-> e]
             ELSE [qb |-> [b EXCEPT !.fields = fields], err |-> Nil])

\* the loop of validateAndSetSort: the error of the first entry whose name,
\* without one leading "-", is not allowed
RECURSIVE SortError(_, _)
SortError(s, sort) ==
    IF sort = <<>> THEN Nil
    ELSE IF ~IsFieldAllowed(s, TrimDashPrefix(Head(sort)))
         THEN Some(FieldError(TrimDashPrefix(Head(sort))))
    ELSE SortError(s, Tail(sort))

\* validateAndSetSort
validateAndSetSort(b, sort, s) ==
    IF Len(sort) = 0 THEN [qb |-> b, err |-> Nil]
    ELSE Let(SortError(s, sort), LAMBDA e :
             IF ~IsNil(e) THEN [qb |-> b, err |-> e]
             ELSE [qb |-> [b EXCEPT !.sort = sort], err |-> Nil])

\* setPagination
setPagination(b, limit, offset) ==
    [b EXCEPT !.limit = IF limit > 0 THEN limit ELSE @,
              !.offset = IF offset > 0 THEN offset ELSE @]

\* Parse(params, s) returns [qb, err]: qb is Nil when err is not
SchemaParse(p, s) ==
    Let(parseQueryParams(p), LAMBDA qp :
    Let(parseAndSetSchemaFilter(NewQueryBuilder(s.table), qp.Filter, s), LAMBDA f :
        IF ~IsNil(f.err) THEN [qb |-> Nil, err |-> f.err]
        ELSE Let(validateAndSetFields(f.qb, qp.Fields, s), LAMBDA g :
        IF ~IsNil(g.err) THEN [qb |-> Nil, err |-> g.err]
        ELSE Let(validateAndSetSort(g.qb, qp.Sort, s), LAMBDA h :
        IF ~IsNil(h.err) THEN [qb |-> Nil, err |-> h.err]
        ELSE [qb |-> Some(setPagination(h.qb, qp.Limit, qp.Offset)), err |-> Nil]))))

\* the requests Parse is called with
RequestFilters ==
    {<<>>, Chars("a=1"), Chars("a='x;y' && b IN (1,2.5)"), Chars("b LIKE '%;--'"),
     Chars("(a"), Chars(" ")}

RequestFields == {<<>>, Chars("id"), Chars("id, pw"), Chars("id;x"), Chars("*")}

RequestSorts == {<<>>, Chars("-a"), Chars("a,-b"), Chars("a;x")}

RequestInts == {<<>>, Chars("5"), Chars("0"), Chars("-1"), Chars("x")}

Requests ==
    [filter : RequestFilters, fields : RequestFields, sort : RequestSorts,
     limit : RequestInts, offset : {<<>>, Chars("12")}]

\* the requests and schemas the schema front end is called with
SchemaFilters ==
    {<<>>, Chars("a=1"), Chars("(a=1 || (pw=2 && b=3))"), Chars("a"), Chars("(a")}

SchemaFields == {<<>>, Chars("id"), Chars("id, pw"), Chars("id,,a")}

SchemaSorts == {<<>>, Chars("-a"), Chars("a,-pw"), Chars("--a")}

SchemaRequests ==
    [filter : SchemaFilters, fields : SchemaFields, sort : SchemaSorts,
     limit : {<<>>, Chars("5")}, offset : {<<>>}]

Schemas ==
    {NewSchema(Table),
     AllowFields(NewSchema(Table), <<Chars("a"), Chars("b"), Chars("id")>>),
     AllowFields(NewSchema(Table), <<Chars("a"), Chars("b"), Chars("id"), Chars("pw")>>),
     AllowFields(NewSchema(Table), <<Chars("a"), Chars("-a"), Chars("id"), <<>>>>)}

NoSchema == NewSchema(<<>>)

\* ----------------------------------------------------------------- calls
\* ret and prev hold what a call returned: op names the call, v is the
\* Validator it was made on (NewValidator for a call on the builder).

Returned(op, r, v) ==
    [op |-> op, sql |-> r.sql, args |-> r.args, argsNil |-> r.argsNil, err |-> r.err,
     panic |-> r.panic, v |-> v]

\* a setter returns the builder itself
Chained == Returned("set", Result(0, <<>>, <<>>, TRUE, Nil, FALSE), NewValidator)

NotCalled == Returned("none", Result(0, <<>>, <<>>, TRUE, Nil, FALSE), NewValidator)

NotParsed == [called |-> FALSE, ast |-> Nil, err |-> Nil]

NoParams == [filter |-> <<>>, fields |-> <<>>, sort |-> <<>>, limit |-> <<>>, offset |-> <<>>]

\* what every setter does besides its assignment
Setter ==
    /\ ret' = Chained
    /\ prev' = NotCalled
    /\ UNCHANGED <<pin, pret, params, qbs, calls, schema>>

SetFields ==
    \E fields \in FieldLists :
        /\ qb' = [qb EXCEPT !.fields = fields]
        /\ Setter

SetFilter ==
    \E filter \in Filters :
        /\ qb' = [qb EXCEPT !.filter = filter]
        /\ Setter

SetSort ==
    \E sort \in SortLists :
        /\ qb' = [qb EXCEPT !.sort = sort]
        /\ Setter

SetLimit ==
    \E limit \in Limits :
        /\ qb' = [qb EXCEPT !.limit = limit]
        /\ Setter

SetOffset ==
    \E offset \in Limits :
        /\ qb' = [qb EXCEPT !.offset = offset]
        /\ Setter

SetPlaceholder ==
    \E style \in Styles :
        /\ qb' = [qb EXCEPT !.placeholderStyle = style]
        /\ Setter

\* the last call, when it was a ToSQL or Where on the builder as it still is
LastBuild == IF ret.op \in {"ToSQL", "Where"} THEN ret ELSE NotCalled

CallToSQL ==
    \E r \in {ToSQL(qb)} :
    /\ qb' = r.qb
    /\ ret' = Returned("ToSQL", r, NewValidator)
    /\ prev' = LastBuild
    /\ UNCHANGED <<pin, pret, params, qbs, calls, schema>>

CallWhere ==
    \E r \in {Where(qb)} :
    /\ qb' = r.qb
    /\ ret' = Returned("Where", r, NewValidator)
    /\ prev' = LastBuild
    /\ UNCHANGED <<pin, pret, params, qbs, calls, schema>>

\* qb.Validate(opts...).ToSQL()
ValidatorCall(opts) ==
    \E r \in {ValidatorToSQL(Validate(opts), qb)} :
        /\ qb' = r.qb
        /\ ret' = Returned("Validator.ToSQL", r, Validate(opts))
        /\ prev' = NotCalled
        /\ UNCHANGED <<pin, pret, params, qbs, calls, schema>>

CallValidatorToSQL == \E opts \in OptionLists : ValidatorCall(opts)

\* the validators called between the builds of one builder: none of the
\* checks, an allow-list, a ceiling of 0 on the limit
HistoryOptions ==
    {<<>>,
     <<WithAllowedFields(<<Chars("b"), Chars("d"), Chars("id")>>)>>,
     <<WithMaxLimit(0)>>}

\* qb.Validate(opts...).ToSQL() between builds
CallValidatorBetween == \E opts \in HistoryOptions : ValidatorCall(opts)

Init ==
    /\ qb = NewQueryBuilder(Table)
    /\ ret = NotCalled
    /\ qbs = <<>>
    /\ calls = <<>>
    /\ schema = NoSchema
    /\ prev = NotCalled
    /\ pin = <<>>
    /\ pret = NotParsed
    /\ params = NoParams

Next ==
    \/ SetFields
    \/ SetFilter
    \/ SetSort
    \/ SetLimit
    \/ SetOffset
    \/ SetPlaceholder
    \/ CallToSQL
    \/ CallWhere

Spec == Init /\ [][Next]_vars

\* SetPlaceholder takes any string: the three styles, the empty string, a
\* numbered style that starts with ?, and a lead character alone
AnyStyles == Styles \cup {<<>>, Chars("?1"), Chars("$")}

SetAnyPlaceholder ==
    \E style \in AnyStyles :
        /\ qb' = [qb EXCEPT !.placeholderStyle = style]
        /\ Setter

NextAnyStyle ==
    \/ SetFields
    \/ SetFilter
    \/ SetSort
    \/ SetLimit
    \/ SetOffset
    \/ SetAnyPlaceholder
    \/ CallToSQL
    \/ CallWhere

SpecAnyStyle == Init /\ [][NextAnyStyle]_vars

\* One builder per filter and placeholder style, built and built again.
InitRender ==
    /\ \/ /\ pin \in RenderTexts
          /\ pret = [called |-> TRUE, ast |-> ParseFilter(pin).ast, err |-> ParseFilter(pin).err]
       \/ /\ pin = <<>>
          /\ pret \in {[called |-> FALSE, ast |-> Some(f), err |-> Nil] : f \in RenderASTs}
    /\ \E style \in Styles :
          qb = [NewQueryBuilder(Table) EXCEPT !.filter = pret.ast, !.placeholderStyle = style]
    /\ ret = NotCalled
    /\ qbs = <<>>
    /\ calls = <<>>
    /\ schema = NoSchema
    /\ prev = NotCalled
    /\ params = NoParams

NextRender ==
    \/ CallToSQL
    \/ CallWhere

SpecRender == InitRender /\ [][NextRender]_vars

\* One builder per text of literals and placeholder style.
InitLiterals ==
    /\ pin \in LiteralTexts
    /\ pret = [called |-> TRUE, ast |-> ParseFilter(pin).ast, err |-> ParseFilter(pin).err]
    /\ \E style \in Styles :
          qb = [NewQueryBuilder(Table) EXCEPT !.filter = pret.ast, !.placeholderStyle = style]
    /\ ret = NotCalled
    /\ prev = NotCalled
    /\ params = NoParams
    /\ qbs = <<>>
    /\ calls = <<>>
    /\ schema = NoSchema

SpecLiterals == InitLiterals /\ [][NextRender]_vars

\* One builder per filter text, holding what ParseFilter made of it.
InitAccepted ==
    /\ pin \in AcceptedTexts
    /\ pret = [called |-> TRUE, ast |-> ParseFilter(pin).ast, err |-> ParseFilter(pin).err]
    /\ qb = [NewQueryBuilder(Table) EXCEPT !.filter = pret.ast]
    /\ ret = NotCalled
    /\ qbs = <<>>
    /\ calls = <<>>
    /\ schema = NoSchema
    /\ prev = NotCalled
    /\ params = NoParams

SpecAccepted == InitAccepted /\ [][NextRender]_vars

\* ------------------------------------------------------- concurrent calls
\* Two goroutines, one call each. A call is the steps of ToSQL, Where or
\* Validator.ToSQL that touch the builder's fields: the reset of qb.args and
\* qb.placeholderCount, then for every value the walk of the AST reaches the
\* append to qb.args and the use of getPlaceholder, and the read of qb.args
\* at the return. The AST the parser produced (pret.ast) is one object; every
\* builder of qbs points at it.
Threads == {1, 2}

ConcurrentTexts ==
    {Chars("a=1"), Chars("a=1 && b='x'"), Chars("b IN (1,'x') || d IS NULL")}

ConcurrentOps == {"ToSQL", "Where", "Validator.ToSQL"}

\* the builder each goroutine calls: the same one, or one each
Receivers == {<<1, 1>>, <<1, 2>>}

\* qb.Validate(WithAllowedFields("a", "b"))
ConcurrentValidator == Validate(<<WithAllowedFields(<<Chars("a"), Chars("b")>>)>>)

ValidatorOf(op) == IF op = "Validator.ToSQL" THEN ConcurrentValidator ELSE NewValidator

NewCall(op, on) ==
    [op |-> op, on |-> on, pc |-> "start", k |-> 1, phs |-> <<>>, overlapped |-> FALSE,
     ret |-> NotCalled]

\* a receiver that is the first builder for every call
FirstBuilder(c) == CHOOSE i \in Threads : \A j \in Threads : i <= j

\* the builder a call works on: the receiver of the method
Receiver(c) == c.on

\* a return that hands out no arguments
NoArgs(b) == <<>>

\* the arguments a call returns: qb.args as it is at the return
ReturnedArgs(b) == b.args

\* the values the walk binds, in the order the walk reaches them
Operands(b) == ToSQL([b EXCEPT !.placeholderStyle = <<"?">>]).args

\* the text a call writes around its placeholders
Template(op, b) ==
    IF op = "Where" THEN Where([b EXCEPT !.placeholderStyle = <<"?">>]).sql
    ELSE ToSQL([b EXCEPT !.placeholderStyle = <<"?">>]).sql

\* the template with its k-th placeholder replaced by the k-th of phs
Fill(t, phs) ==
    Flatten([i \in 1..Len(t) |->
        IF t[i] = "?" THEN phs[Cardinality({j \in 1..i : t[j] = "?"})] ELSE <<t[i]>>])

\* a call that has started and has not returned
Running(u) == calls[u].pc \notin {"start", "done"}

\* thread t moves its call to c; two calls overlap once one of them takes a
\* step while the other is running
Stepped(t, c) ==
    calls' = [u \in Threads |->
        IF u = t
        THEN [c EXCEPT !.overlapped = @ \/ \E w \in Threads \ {t} : Running(w)]
        ELSE IF Running(u) THEN [calls[u] EXCEPT !.overlapped = TRUE] ELSE calls[u]]

AfterOperand(b, k) == IF k <= Len(Operands(b)) THEN "append" ELSE "return"

\* Validator.ToSQL before it calls v.qb.ToSQL(): the checks only read
ValidateStep(t) ==
    /\ calls[t].pc = "start"
    /\ calls[t].op = "Validator.ToSQL"
    /\ \E err \in {Validation(ConcurrentValidator, qbs[Receiver(calls[t])])} :
        IF IsNil(err)
        THEN Stepped(t, [calls[t] EXCEPT !.pc = "validated"])
        ELSE Stepped(t, [calls[t] EXCEPT !.pc = "done",
                 !.ret = Returned("Validator.ToSQL",
                                  Rejected(qbs[Receiver(calls[t])], err), ConcurrentValidator)])
    /\ UNCHANGED <<qb, ret, prev, pin, pret, params, qbs, schema>>

\* qb.args = make([]any, 0); qb.placeholderCount = 0
ResetStep(t) ==
    /\ \/ calls[t].pc = "start" /\ calls[t].op # "Validator.ToSQL"
       \/ calls[t].pc = "validated"
    /\ \E i \in {Receiver(calls[t])} : \E b \in {ResetArgs(qbs[i])} :
        /\ qbs' = [qbs EXCEPT ![i] = b]
        /\ IF calls[t].op = "Where" /\ (IsNil(b.filter) \/ IsNil(b.filter[1].Expression))
           THEN Stepped(t, [calls[t] EXCEPT !.pc = "done",
                    !.ret = Returned("Where", Result(b, <<>>, <<>>, TRUE, Nil, FALSE),
                                     NewValidator)])
           ELSE Stepped(t, [calls[t] EXCEPT !.pc = AfterOperand(b, 1)])
    /\ UNCHANGED <<qb, ret, prev, pin, pret, params, schema>>

\* qb.args = append(qb.args, value)
AppendStep(t) ==
    /\ calls[t].pc = "append"
    /\ \E i \in {Receiver(calls[t])} :
        /\ qbs' = [qbs EXCEPT ![i] = AppendArg(qbs[i], Operands(qbs[i])[calls[t].k])]
        /\ Stepped(t, [calls[t] EXCEPT !.pc = "placeholder"])
    /\ UNCHANGED <<qb, ret, prev, pin, pret, params, schema>>

\* qb.getPlaceholder()
PlaceholderStep(t) ==
    /\ calls[t].pc = "placeholder"
    /\ \E i \in {Receiver(calls[t])} : \E ph \in {getPlaceholder(qbs[i])} :
        /\ qbs' = [qbs EXCEPT ![i] = ph.qb]
        /\ Stepped(t, [calls[t] EXCEPT !.phs = Append(@, ph.sql), !.k = @ + 1,
                                       !.pc = AfterOperand(qbs[i], calls[t].k + 1)])
    /\ UNCHANGED <<qb, ret, prev, pin, pret, params, schema>>

\* return sql.String(), qb.args, nil  and  return whereSQL, qb.args
ReturnStep(t) ==
    /\ calls[t].pc = "return"
    /\ \E b \in {qbs[Receiver(calls[t])]} :
        Stepped(t, [calls[t] EXCEPT !.pc = "done",
            !.ret = Returned(calls[t].op,
                             Result(b, Fill(Template(calls[t].op, b), calls[t].phs),
                                    ReturnedArgs(b),
                                    FALSE, Nil, FALSE),
                             ValidatorOf(calls[t].op))])
    /\ UNCHANGED <<qb, ret, prev, pin, pret, params, qbs, schema>>

\* Two builders of one AST and one placeholder style, and two calls on them.
InitConcurrent ==
    /\ pin \in ConcurrentTexts
    /\ pret = [called |-> TRUE, ast |-> ParseFilter(pin).ast, err |-> ParseFilter(pin).err]
    /\ \E style \in Styles :
        qbs = [i \in Threads |->
                  [NewQueryBuilder(Table) EXCEPT !.filter = pret.ast,
                                                 !.placeholderStyle = style]]
    /\ \E r \in Receivers : \E o1 \in ConcurrentOps : \E o2 \in ConcurrentOps :
        calls = [u \in Threads |-> IF u = 1 THEN NewCall(o1, r[1]) ELSE NewCall(o2, r[2])]
    /\ qb = NewQueryBuilder(Table)
    /\ ret = NotCalled
    /\ prev = NotCalled
    /\ params = NoParams
    /\ schema = NoSchema

NextConcurrent ==
    \E t \in Threads :
        \/ ValidateStep(t)
        \/ ResetStep(t)
        \/ AppendStep(t)
        \/ PlaceholderStep(t)
        \/ ReturnStep(t)

SpecConcurrent == InitConcurrent /\ [][NextConcurrent]_vars

\* the builder under validation, with the default placeholder style
NextValidate ==
    \/ SetFields
    \/ SetFilter
    \/ SetSort
    \/ SetLimit
    \/ SetOffset
    \/ CallValidatorToSQL
    \/ CallToSQL

SpecValidate == Init /\ [][NextValidate]_vars

\* every call on one builder: setters, SetPlaceholder, ToSQL, Where and
\* Validator.ToSQL
NextHistory ==
    \/ SetFields
    \/ SetFilter
    \/ SetSort
    \/ SetLimit
    \/ SetOffset
    \/ SetPlaceholder
    \/ CallToSQL
    \/ CallWhere
    \/ CallValidatorBetween

SpecHistory == Init /\ [][NextHistory]_vars

\* One text per run, parsed.
InitParser ==
    /\ pin \in ParserInputs
    /\ pret = NotParsed
    /\ qb = NewQueryBuilder(Table)
    /\ ret = NotCalled
    /\ qbs = <<>>
    /\ calls = <<>>
    /\ schema = NoSchema
    /\ prev = NotCalled
    /\ params = NoParams

\* ParseFilter(pin)
CallParseFilter ==
    \E r \in {ParseFilter(pin)} :
        /\ pret' = [called |-> TRUE, ast |-> r.ast, err |-> r.err]
        /\ UNCHANGED <<qb, ret, prev, pin, params, qbs, calls, schema>>

NextParser == CallParseFilter

SpecParser == InitParser /\ [][NextParser]_vars

\* Parse(params, table).  A failed Parse returns no builder: the one held stays
\* as it was and is not built from until a Parse succeeds.
CallParse ==
    \E r \in {QueryParse(params, Table)} :
        /\ qb' = IF IsNil(r.qb) THEN qb ELSE r.qb[1]
        /\ ret' = Returned("Parse", Result(0, <<>>, <<>>, TRUE, r.err, FALSE), NewValidator)
        /\ prev' = NotCalled
        /\ UNCHANGED <<pin, pret, params, qbs, calls, schema>>

\* ToSQL on the builder Parse returned
CallParsedToSQL ==
    /\ ret.op \in {"Parse", "ToSQL"}
    /\ IsNil(ret.err)
    /\ CallToSQL

NextQuery ==
    \/ CallParse
    \/ CallParsedToSQL

\* One request per run.
InitQuery ==
    /\ params \in Requests
    /\ qb = NewQueryBuilder(Table)
    /\ ret = NotCalled
    /\ qbs = <<>>
    /\ calls = <<>>
    /\ schema = NoSchema
    /\ prev = NotCalled
    /\ pin = <<>>
    /\ pret = NotParsed

SpecQuery == InitQuery /\ [][NextQuery]_vars

\* Parse(params, s) with a schema
CallSchemaParse ==
    \E r \in {SchemaParse(params, schema)} :
        /\ qb' = IF IsNil(r.qb) THEN qb ELSE r.qb[1]
        /\ ret' = Returned("Parse", Result(0, <<>>, <<>>, TRUE, r.err, FALSE), NewValidator)
        /\ prev' = NotCalled
        /\ UNCHANGED <<pin, pret, params, qbs, calls, schema>>

NextSchemaQuery ==
    \/ CallSchemaParse
    \/ CallParsedToSQL

\* One request and one schema per run.
InitSchemaQuery ==
    /\ params \in SchemaRequests
    /\ schema \in Schemas
    /\ qb = NewQueryBuilder(Table)
    /\ ret = NotCalled
    /\ prev = NotCalled
    /\ pin = <<>>
    /\ pret = NotParsed
    /\ qbs = <<>>
    /\ calls = <<>>

SpecSchemaQuery == InitSchemaQuery /\ [][NextSchemaQuery]_vars

\* ------------------------------------------------------------ validation
\* What a returned SQL text and a builder's settings hold, read off without
\* the validator.

IdentChars == LetterSet \cup DigitSet \cup {"_"}

\* the names in a text: its maximal runs of name characters that start with
\* a letter or an underscore (a keyword of the builder is one atom, never a run)
NamesIn(t) ==
    {SubSeq(t, i, i + RunLen(t, i, IdentChars) - 1) :
        i \in {k \in 1..Len(t) :
                 /\ IsIdentStart(t[k])
                 /\ (k = 1 \/ t[k - 1] \notin IdentChars)}}

\* the field names of the returned SQL: its names but the table's
SQLFields(r) == NamesIn(r.sql) \ {qb.table}

RECURSIVE OrExprFields(_)
RECURSIVE AndExprFields(_)
RECURSIVE ComparisonFields(_)

\* the fields a filter compares, at any depth, as SQL reads them
ComparisonFields(comp) ==
    IF IsNil(comp) \/ IsNil(comp[1].Left) THEN {}
    ELSE (IF comp[1].Left[1].Field # <<>> THEN {TrimSpace(comp[1].Left[1].Field)} ELSE {})
         \cup OrExprFields(comp[1].Left[1].SubExpr)

AndExprFields(expr) ==
    IF IsNil(expr) THEN {}
    ELSE UNION {ComparisonFields(c) : c \in {expr[1].Comparison[i] : i \in 1..Len(expr[1].Comparison)}}

OrExprFields(expr) ==
    IF IsNil(expr) THEN {}
    ELSE UNION {AndExprFields(a) : a \in {expr[1].And[i] : i \in 1..Len(expr[1].And)}}

FilterFields(b) == IF IsNil(b.filter) THEN {} ELSE OrExprFields(b.filter[1].Expression)

\* the fields a builder asks for: selected, compared and sorted by
RequestedFields(b) ==
    {b.fields[i] : i \in 1..Len(b.fields)}
        \cup FilterFields(b)
        \cup {TrimDashPrefix(b.sort[i]) : i \in 1..Len(b.sort)}

Validated == ret.op = "Validator.ToSQL"

AllowListed == ret.v.allowedFields # {}

Disallowed == AllowListed /\ ~(RequestedFields(qb) \subseteq ret.v.allowedFields)

OverLimit == ~IsNil(ret.v.maxLimit) /\ qb.limit > ret.v.maxLimit[1]

OverOffset == ~IsNil(ret.v.maxOffset) /\ qb.offset > ret.v.maxOffset[1]

Failed == ~IsNil(ret.err)

IsLimitError == Failed /\ Contains(ret.err[1], <<" exceeds maximum allowed limit of ">>)

IsOffsetError == Failed /\ Contains(ret.err[1], <<" exceeds maximum allowed offset of ">>)

\* the filter with a sub-expression two parentheses deep
NestedFilter == ParseFilter(Chars("pw LIKE 'x%' && ((a=2.5 || b!=true))")).ast

\* C2: whenever Validator.ToSQL succeeds with a non-empty allow-list, every
\* field name in the returned SQL -- each SELECT field, each field of a
\* comparison at any depth of the WHERE clause, each ORDER BY field without
\* its leading '-' -- is a member of the allow-list.
C2_OnlyAllowedFieldsInSQL ==
    (Validated /\ ~Failed /\ AllowListed) =>
        /\ SQLFields(ret) \subseteq ret.v.allowedFields
        /\ RequestedFields(qb) \subseteq SQLFields(ret)

\* a validated query that selects, compares inside nested parentheses and
\* sorts descending, and succeeds
C2_Witness ==
    /\ Validated /\ ~Failed /\ AllowListed
    /\ Len(qb.fields) > 0
    /\ qb.filter = NestedFilter
    /\ Len(qb.sort) > 0 /\ HasDashPrefix(qb.sort[1])
    /\ Chars("b") \in SQLFields(ret)

\* C3: when a check of Validator.ToSQL fails (a disallowed field in select,
\* filter or sort, a limit over the maximum, an offset over the maximum) the
\* call returns the empty SQL string, a nil argument list and an error; an
\* error never comes with SQL or with arguments.
C3_FailureReturnsNothing ==
    Validated =>
        /\ (Disallowed \/ OverLimit \/ OverOffset) => Failed
        /\ Failed => (ret.sql = <<>> /\ ret.argsNil /\ ret.args = <<>>)

\* a query whose filter holds a disallowed field and binds arguments is
\* rejected
C3_Witness ==
    /\ Validated /\ Failed /\ Disallowed
    /\ ~(FilterFields(qb) \subseteq ret.v.allowedFields)
    /\ Len(ToSQL(qb).args) > 0

Keywords ==
    {"LIKE", "like", "ILIKE", "ilike", "NOT", "not", "IN", "in", "IS", "is", "NULL", "null",
     "true", "TRUE", "false", "FALSE"}

IsLiteral(tok) ==
    \/ tok.type \in {"String", "Float", "Int"}
    \/ tok.type = "Ident" /\ Str(tok.value) \in {"true", "TRUE", "false", "FALSE"}

IsFieldToken(tok) == tok.type = "Ident" /\ Str(tok.value) \notin Keywords

\* the n-th smallest member of a set of numbers
Nth(S, n) == CHOOSE x \in S : Cardinality({y \in S : y < x}) = n - 1

\* the last member of S below i
LastBelow(S, i) == CHOOSE x \in S : x < i /\ \A y \in S : y < i => y <= x

\* the value a literal token stands for
LiteralArg(tok) ==
    IF tok.type = "String" THEN StringArg(SubSeq(tok.value, 2, Len(tok.value) - 1))
    ELSE IF tok.type = "Int" THEN IntArg(Atoi(tok.value))
    ELSE IF tok.type = "Float" THEN FloatArg(ParseFloat(tok.value))
    ELSE BoolArg(Str(tok.value) \in {"true", "TRUE"})

\* the literals of a filter text, left to right, each with the field named
\* before it
Literals(text) ==
    Let(filterLexer(text).toks, LAMBDA toks :
    Let({k \in 1..Len(toks) : IsLiteral(toks[k])}, LAMBDA at :
        [n \in 1..Cardinality(at) |->
            [arg |-> LiteralArg(toks[Nth(at, n)]),
             field |-> toks[LastBelow({k \in 1..Len(toks) : IsFieldToken(toks[k])},
                                      Nth(at, n))].value]]))

\* the positions of the placeholders in an SQL text written in a style
PlaceholdersAt(sql, style) == {i \in 1..Len(sql) : sql[i] = style[1]}

\* the positions where a name starts in an SQL text
NamesAt(sql) ==
    {k \in 1..Len(sql) : IsIdentStart(sql[k]) /\ (k = 1 \/ sql[k - 1] \notin IdentChars)}

NameAt(sql, k) == SubSeq(sql, k, k + RunLen(sql, k, IdentChars) - 1)

\* the number written after the placeholder at position i
NumberAt(sql, i) == SubSeq(sql, i + 1, i + RunLen(sql, i + 1, DigitSet))

Rendered == ret.op \in {"ToSQL", "Where"}

Numbered == qb.placeholderStyle # Chars("?")

\* the n-th argument is the n-th literal of the text, and the n-th placeholder
\* stands after the field that literal is compared with
BoundInOrder(sql, args, style, lits) ==
    /\ Len(args) = Len(lits)
    /\ \A n \in 1..Len(lits) :
          /\ args[n] = lits[n].arg
          /\ NameAt(sql, LastBelow(NamesAt(sql), Nth(PlaceholdersAt(sql, style), n)))
                = lits[n].field
          /\ NumberAt(sql, Nth(PlaceholdersAt(sql, style), n))
                = (IF style = Chars("?") THEN <<>> ELSE Itoa(n))

\* C1: for every filter AST (any nesting, any mix of scalar and IN / NOT IN
\* comparisons) and either placeholder style, ToSQL and Where return as many
\* arguments as the SQL has placeholders, and the N-th argument is the value
\* bound by the N-th placeholder from the left.
C1_ArgsMatchPlaceholders ==
    Rendered =>
        /\ Len(ret.args) = Cardinality(PlaceholdersAt(ret.sql, qb.placeholderStyle))
        /\ pin # <<>> => BoundInOrder(ret.sql, ret.args, qb.placeholderStyle, Literals(pin))

\* a nested filter with a scalar and an IN list, numbered placeholders, three
\* arguments of three kinds
C1_Witness ==
    /\ ret.op = "ToSQL" /\ Numbered
    /\ pin = Chars("a=1 || (b IN ('x',2.5))")
    /\ ret.args = <<IntArg(1), StringArg(Chars("x")), FloatArg([num |-> 25, den |-> 10])>>

\* C5: ToSQL called twice in a row on a builder not modified in between
\* returns the same SQL and an equal argument list; arguments and placeholder
\* numbers do not accumulate.
C5_ToSQLIsRepeatable ==
    (ret.op = "ToSQL" /\ prev.op = "ToSQL") =>
        /\ ret.sql = prev.sql
        /\ ret.args = prev.args
        /\ ret.argsNil = prev.argsNil

\* two ToSQL calls in a row on a builder with numbered placeholders and
\* several arguments
C5_Witness ==
    /\ ret.op = "ToSQL" /\ prev.op = "ToSQL"
    /\ Numbered
    /\ Len(ret.args) >= 2

\* Another literal of the same kind in the place of each literal of a filter.
RECURSIVE RevalueValue(_)
RECURSIVE RevalueOr(_)

RevalueValue(val) ==
    IF IsNil(val) THEN val
    ELSE Some([String |-> IF IsNil(val[1].String) THEN Nil
                          ELSE Some(SubSeq(val[1].String[1], 1, Len(val[1].String[1]) - 1)
                                        \o <<";", val[1].String[1][1]>>),
               Number |-> IF IsNil(val[1].Number) THEN Nil
                          ELSE Some([val[1].Number[1] EXCEPT !.num = @ + val[1].Number[1].den]),
               Int |-> IF IsNil(val[1].Int) THEN Nil ELSE Some(val[1].Int[1] + 1),
               Boolean |-> IF IsNil(val[1].Boolean) THEN Nil
                           ELSE Some([True |-> ~val[1].Boolean[1].True,
                                      False |-> ~val[1].Boolean[1].False]),
               Array |-> IF IsNil(val[1].Array) THEN Nil
                         ELSE Some([Values |->
                                 [i \in 1..Len(val[1].Array[1].Values) |->
                                     RevalueValue(val[1].Array[1].Values[i])]])])

RevalueComparison(comp) ==
    IF IsNil(comp) THEN comp
    ELSE Some([comp[1] EXCEPT
                 !.Right = RevalueValue(@),
                 !.Left = IF IsNil(@) THEN @
                          ELSE Some([@[1] EXCEPT !.SubExpr = RevalueOr(@)])])

RevalueAnd(expr) ==
    IF IsNil(expr) THEN expr
    ELSE Some([Comparison |->
                 [i \in 1..Len(expr[1].Comparison) |-> RevalueComparison(expr[1].Comparison[i])]])

RevalueOr(expr) ==
    IF IsNil(expr) THEN expr
    ELSE Some([And |-> [i \in 1..Len(expr[1].And) |-> RevalueAnd(expr[1].And[i])]])

Revalue(filter) ==
    IF IsNil(filter) THEN filter ELSE Some([Expression |-> RevalueOr(filter[1].Expression)])

\* the builder as it is, with other literals in its filter
Revalued == [qb EXCEPT !.filter = Revalue(@)]

\* C6: the SQL text does not depend on the literal values of a filter: two
\* filters of the same shape, fields, operators, value kinds and array lengths
\* give the identical SQL; the values are in the argument list only.
C6_SQLIndependentOfValues ==
    /\ ret.op = "ToSQL" =>
          /\ ToSQL(Revalued).sql = ret.sql
          /\ Len(ToSQL(Revalued).args) = Len(ret.args)
          /\ \A n \in 1..Len(ret.args) :
                ret.args[n].k # "nil" => ToSQL(Revalued).args[n] # ret.args[n]
    /\ ret.op = "Where" => Where(Revalued).sql = ret.sql

\* a filter with a string, a number and an IN list, whose other literals
\* reach the arguments and leave the SQL as it is
C6_Witness ==
    /\ ret.op = "ToSQL"
    /\ pin = Chars("(b IN ('x',2.5) && a=1) || c NOT IN (true)")
    /\ Len(ret.args) = 4
    /\ ToSQL(Revalued).args[1] = StringArg(Chars("x;"))

\* ---------------------------------------------------------------- parsing
\* What a filter text holds, read off its characters without the parser.

Parsed == pret.called

\* the positions of a character in a text
PositionsOf(t, c) == {i \in 1..Len(t) : t[i] = c}

\* the pieces of a text between the separators cc
PieceCount(t, c) == (Cardinality(PositionsOf(t, c)) \div 2) + 1

Piece(t, c, k) ==
    Let(PositionsOf(t, c), LAMBDA at :
        SubSeq(t,
               IF k = 1 THEN 1 ELSE Nth(at, 2 * (k - 1)) + 1,
               IF 2 * k > Cardinality(at) THEN Len(t) ELSE Nth(at, (2 * k) - 1) - 1))

\* the comparison of a text that holds one comparison and no connective
OnlyComparison(t) == ParseFilter(t).ast[1].Expression[1].And[1][1].Comparison[1]

\* one group per piece between ||, holding one comparison per piece between &&
ExpectedGroup(t) ==
    Some([Comparison |-> [k \in 1..PieceCount(t, "&") |-> OnlyComparison(Piece(t, "&", k))]])

ExpectedOrExpr(t) ==
    [And |-> [g \in 1..PieceCount(t, "|") |-> ExpectedGroup(Piece(t, "|", g))]]

\* the sizes of the groups of a parsed filter
GroupSizes(ast) ==
    [g \in 1..Len(ast[1].Expression[1].And) |->
        Len(ast[1].Expression[1].And[g][1].Comparison)]

IsSyntaxError(err, filter) ==
    /\ ~IsNil(err)
    /\ \E i \in 1..Len(err[1]) : err[1][i] = SyntaxMarker
    /\ Contains(err[1], filter)

NoTokens(t) == filterLexer(t).ok /\ filterLexer(t).toks = <<>>

\* C8: for a chain of comparisons joined by && and || without parentheses,
\* ParseFilter returns one OrExpr with one AndExpr per piece between the ||,
\* in input order, each holding the comparisons of its run of &&.
C8_GroupsFollowConnectives ==
    (Parsed /\ pin \in ChainTexts) =>
        /\ IsNil(pret.err)
        /\ pret.ast = Some([Expression |-> Some(ExpectedOrExpr(pin))])

\* X && Y || Z was parsed into two groups of sizes 2 and 1
C8_Witness ==
    /\ Parsed
    /\ pin \in ChainTexts
    /\ PieceCount(pin, "|") = 2
    /\ PieceCount(Piece(pin, "|", 1), "&") = 2
    /\ PieceCount(Piece(pin, "|", 2), "&") = 1
    /\ GroupSizes(pret.ast) = <<2, 1>>

\* C9 as stated: every input that reduces to no tokens, the empty one or one
\* of whitespace only, gives no AST and no error.
C9_NoTokensIsNoFilter ==
    (Parsed /\ NoTokens(pin)) => (IsNil(pret.ast) /\ IsNil(pret.err))

\* C9: ParseFilter returns no AST and no error for the empty string, and for
\* no other input; an input of whitespace only is a syntax error.
C9_OnlyEmptyIsNoFilter ==
    Parsed =>
        /\ (IsNil(pret.ast) /\ IsNil(pret.err)) <=> (pin = <<>>)
        /\ (NoTokens(pin) /\ pin # <<>>) => IsSyntaxError(pret.err, pin)

\* the empty string was parsed into no filter and no error
C9_Witness == Parsed /\ pin = <<>> /\ IsNil(pret.ast) /\ IsNil(pret.err)

\* C10: a malformed input (a parenthesis without its partner, a dangling or
\* leading logical operator, an empty or unclosed array, an unknown operator,
\* a missing comma in an array, a lone operator) gives a nil AST and an error
\* that holds "invalid filter syntax" and the input; no error comes with an
\* AST.
C10_MalformedIsSyntaxError ==
    Parsed =>
        /\ (pin \in Malformed) => (IsNil(pret.ast) /\ IsSyntaxError(pret.err, pin))
        /\ ~IsNil(pret.err) => IsNil(pret.ast)

\* a chain with a malformed array in it was rejected with its text in the error
C10_Witness ==
    /\ Parsed
    /\ pin \in Embedded
    /\ IsNil(pret.ast)
    /\ IsSyntaxError(pret.err, pin)

\* ------------------------------------------------------------- injection
\* The characters of an SQL text that the builder's own code writes: its
\* keywords and separators, the placeholders, the operators, and the numbers
\* after LIMIT and OFFSET.

CodeChars == {" ", "(", ")", "?", "*", "=", ">", "<"}

IsCodeAtom(sql, i) ==
    \/ Len(sql[i]) > 1
    \/ sql[i] \in CodeChars
    \/ /\ sql[i] \in DigitSet
       /\ \E j \in 1..(i - 1) :
             /\ sql[j] \in {" LIMIT ", " OFFSET "}
             /\ \A k \in (j + 1)..i : sql[k] \in DigitSet

\* where a run of characters that the code did not write starts
RunsAt(sql) ==
    {i \in 1..Len(sql) : ~IsCodeAtom(sql, i) /\ (i = 1 \/ IsCodeAtom(sql, i - 1))}

RunAt(sql, i) ==
    SubSeq(sql, i, CHOOSE j \in i..Len(sql) :
                       /\ \A k \in i..j : ~IsCodeAtom(sql, k)
                       /\ (j = Len(sql) \/ IsCodeAtom(sql, j + 1)))

FromParse == ret.op = "ToSQL" /\ IsNil(ret.err) /\ ~ret.panic

\* C7: in the SQL of Parse(params, table) followed by ToSQL, every run of
\* text that the builder's code did not write is a name matching
\* [A-Za-z_][A-Za-z0-9_]*.
C7_UserTextOnlyAsIdentifiers ==
    FromParse => \A i \in RunsAt(ret.sql) : IsIdentifier(RunAt(ret.sql, i))

\* ------------------------------------------------------------ pagination
\* Where a keyword of the builder stands in an SQL text.

KeywordAt(sql, kw) == {i \in 1..Len(sql) : sql[i] = kw}

\* the clause kw n is in the text once, or not at all when n is not positive
ClauseIffPositive(sql, kw, n) ==
    /\ (KeywordAt(sql, kw) # {}) <=> (n > 0)
    /\ Cardinality(KeywordAt(sql, kw)) <= 1
    /\ \A i \in KeywordAt(sql, kw) : NumberAt(sql, i) = Itoa(n)

ParsedOperator == pret.ast[1].Expression[1].And[1][1].Comparison[1][1].Op

\* the SQL of a fresh builder that holds the parsed filter
ParsedSQL == ToSQL([NewQueryBuilder(Table) EXCEPT !.filter = pret.ast]).sql

ExpectedSQL(sp) ==
    "SELECT * FROM users WHERE a " \o sp.canon \o (IF TakesList(sp) THEN " (?)" ELSE " ?")

\* C12: a comparison written with any spelling of an operator parses, and
\* its operator renders as the one SQL text of that operator, the same for
\* every spelling of it.
C12_SpellingsRenderCanonically ==
    \A sp \in Spellings :
        (Parsed /\ pin = SpellingText(sp)) =>
            /\ IsNil(pret.err)
            /\ ~IsNil(pret.ast)
            /\ ~IsNil(ParsedOperator)
            /\ OperatorString(ParsedOperator[1]) = <<sp.canon>>
            /\ Str(ParsedSQL) = ExpectedSQL(sp)

\* a <> 1 was parsed and renders with !=
C12_Witness ==
    /\ Parsed
    /\ pin = Chars("a <> 1")
    /\ ~IsNil(pret.ast)
    /\ OperatorString(ParsedOperator[1]) = <<"!=">>
    /\ Str(ParsedSQL) = "SELECT * FROM users WHERE a != ?"

\* ---------------------------------------------------------- placeholders
\* C13: with the default style every placeholder is the literal ? and the
\* counter stays 0; with a numbered style of lead character c the
\* placeholders of one ToSQL or Where call are c1, c2, ..., ck from left to
\* right, from 1 again in every call.
C13_PlaceholdersNumberFromOne ==
    (Rendered /\ ~ret.panic) =>
        LET at == PlaceholdersAt(ret.sql, qb.placeholderStyle)
        IN  /\ Cardinality(at) = Len(ret.args)
            /\ IF Numbered
               THEN /\ qb.placeholderCount = Cardinality(at)
                    /\ \A k \in 1..Cardinality(at) : NumberAt(ret.sql, Nth(at, k)) = Itoa(k)
               ELSE /\ qb.placeholderCount = 0
                    /\ \A i \in at : NumberAt(ret.sql, i) = <<>>

\* a second call in a numbered style, with two placeholders or more
C13_Witness ==
    /\ Rendered
    /\ Numbered
    /\ prev.op \in {"ToSQL", "Where"}
    /\ Len(prev.args) >= 2
    /\ Len(ret.args) >= 2
    /\ NumberAt(ret.sql, Nth(PlaceholdersAt(ret.sql, qb.placeholderStyle), 2)) = <<"2">>

\* -------------------------------------------------------------- totality
\* C14: ToSQL returns normally, with a nil error, for every builder reached
\* through NewQueryBuilder and the setters, SetPlaceholder with any string
\* among them.
C14_ToSQLNeverFails == (ret.op = "ToSQL") => (~ret.panic /\ IsNil(ret.err))

\* ----------------------------------------------------------------- where
\* the text after the WHERE keyword
WherePart(sql) ==
    IF KeywordAt(sql, " WHERE ") = {} THEN <<>>
    ELSE SubSeq(sql, (CHOOSE i \in KeywordAt(sql, " WHERE ") : TRUE) + 1, Len(sql))

Accepted == pin # <<>> /\ Parsed /\ IsNil(pret.err) /\ ~IsNil(pret.ast)

\* C15: for every filter text that is not empty and that ParseFilter
\* accepts, ToSQL on a builder holding its AST writes " WHERE " and after it
\* a text that is not empty and names the field of every comparison.
C15_AcceptedFilterHasWhere ==
    (ret.op = "ToSQL" /\ Accepted) =>
        /\ KeywordAt(ret.sql, " WHERE ") # {}
        /\ WherePart(ret.sql) # <<>>
        /\ FilterFields(qb) \subseteq NamesIn(WherePart(ret.sql))

\* ------------------------------------------------------------------ C16
\* what a call returns when it is the only call on its builder
Alone(c) ==
    Let(qbs[c.on], LAMBDA b :
        IF c.op = "Where" THEN Returned("Where", Where(b), NewValidator)
        ELSE IF c.op = "ToSQL" THEN Returned("ToSQL", ToSQL(b), NewValidator)
        ELSE Returned("Validator.ToSQL", ValidatorToSQL(ConcurrentValidator, b),
                      ConcurrentValidator))

Done(t) == calls[t].pc = "done"

SameBuilder == calls[1].on = calls[2].on

\* a returned result that is not the one the call returns alone
Differs(t) == Done(t) /\ calls[t].ret # Alone(calls[t])

\* C16: two calls on one QueryBuilder can interleave so that a call returns
\* arguments or placeholder numbers it does not return alone, and only so: a
\* call that returns something else shares its builder with the other call
\* and overlapped it.
C16_OnlyOverlapChangesResult ==
    calls # <<>> =>
        \A t \in Threads : Differs(t) => (SameBuilder /\ calls[t].overlapped)

\* an interleaving on one builder after which a call has returned other
\* arguments than alone
C16_Witness ==
    /\ calls # <<>>
    /\ SameBuilder
    /\ \E t \in Threads :
        /\ Differs(t)
        /\ calls[t].overlapped
        /\ calls[t].ret.args # Alone(calls[t]).args

\* ------------------------------------------------------------------ C17
\* C17: the calls never modify the AST, so calls on distinct builders that
\* hold the same AST return, under every interleaving, what they return
\* alone, and the AST is afterwards what the parser produced.
C17_DistinctBuildersIndependent ==
    (calls # <<>> /\ ~SameBuilder) =>
        /\ \A t \in Threads : Done(t) => calls[t].ret = Alone(calls[t])
        /\ pret.ast = ParseFilter(pin).ast
        /\ \A i \in Threads : qbs[i].filter = pret.ast

\* both calls have returned, each on its own builder, after overlapping
C17_Witness ==
    /\ calls # <<>>
    /\ ~SameBuilder
    /\ \A t \in Threads :
        /\ Done(t)
        /\ calls[t].overlapped
        /\ IsNil(calls[t].ret.err)
        /\ Len(calls[t].ret.args) = 2
        /\ qbs[calls[t].on].placeholderStyle # <<"?">>

\* ------------------------------------------------------------------ C18
\* the field names a request asks for: the fields of its filter at any depth,
\* its fields entries, and its sort entries without one leading "-"
FilterNames(p) ==
    IF p.filter = <<>> \/ ~IsNil(ParseFilter(p.filter).err) THEN {}
    ELSE FilterFields([filter |-> ParseFilter(p.filter).ast])

FieldsNames(p) ==
    {parseCommaSeparatedList(p.fields)[i] : i \in 1..Len(parseCommaSeparatedList(p.fields))}

SortNames(p) ==
    {TrimDashPrefix(parseCommaSeparatedList(p.sort)[i]) :
        i \in 1..Len(parseCommaSeparatedList(p.sort))}

RequestNames(p) == FilterNames(p) \cup FieldsNames(p) \cup SortNames(p)

SchemaParsed == ret.op = "Parse"

\* C18: Parse(params, schema) returns a builder only if every field of the
\* filter, every fields entry and every sort entry without one leading "-"
\* is in the schema's allowed set; otherwise it returns an error and no
\* builder, so a schema that allows nothing rejects every field.
C18_BuilderOnlyForAllowedFields ==
    SchemaParsed =>
        \A r \in {SchemaParse(params, schema)} :
            /\ ret.err = r.err
            /\ IsNil(r.qb) <=> ~IsNil(r.err)
            /\ ~IsNil(r.qb) => RequestNames(params) \subseteq schema.allowedFields
            /\ ~(RequestNames(params) \subseteq schema.allowedFields)
                   => (~IsNil(r.err) /\ IsNil(r.qb))
            /\ (schema.allowedFields = {} /\ RequestNames(params) # {}) => IsNil(r.qb)

\* a request with a nested filter, fields and a descending sort, every name
\* allowed, that Parse turned into a builder
C18_Witness ==
    /\ SchemaParsed
    /\ IsNil(ret.err)
    /\ Cardinality(FilterNames(params)) = 3
    /\ FieldsNames(params) # {}
    /\ \E i \in 1..Len(qb.sort) : HasDashPrefix(qb.sort[i])
    /\ RequestNames(params) \subseteq schema.allowedFields

\* ------------------------------------------------------------------ C19
\* a Validator made with no WithAllowedFields option or with an empty list
Unrestricted == Validated /\ ret.v.allowedFields = {}

C20_WhereIsTheWhereStep ==
    (ret.op = "Where" /\ ~ret.panic) =>
        \A t \in {ToSQL(qb)} :
            IF ret.sql # <<>>
            THEN /\ KeywordAt(t.sql, " WHERE ") # {}
                 /\ Len(WherePart(t.sql)) >= Len(ret.sql)
                 /\ SubSeq(WherePart(t.sql), 1, Len(ret.sql)) = ret.sql
                 /\ t.args = ret.args
            ELSE /\ KeywordAt(t.sql, " WHERE ") = {}
                 /\ t.args = <<>>

\* Where returned a text with several numbered placeholders on a builder
\* whose ToSQL also writes a select list and an ORDER BY
C20_Witness ==
    /\ ret.op = "Where"
    /\ Len(ret.args) >= 2
    /\ qb.placeholderStyle # <<"?">>
    /\ qb.fields # <<>>
    /\ qb.sort # <<>>
    /\ KeywordAt(ToSQL(qb).sql, " ORDER BY ") # {}

\* ------------------------------------------------------------------ C21
RECURSIVE ComparisonsOfOr(_)
RECURSIVE ComparisonsOfAnd(_)
RECURSIVE ComparisonsOf(_)

\* a Comparison and the Comparisons of its sub-expression, at any depth
ComparisonsOf(comp) ==
    IF IsNil(comp) THEN {}
    ELSE {comp[1]} \cup (IF IsNil(comp[1].Left) THEN {}
                         ELSE ComparisonsOfOr(comp[1].Left[1].SubExpr))

ComparisonsOfAnd(expr) ==
    IF IsNil(expr) THEN {}
    ELSE UNION {ComparisonsOf(expr[1].Comparison[i]) : i \in 1..Len(expr[1].Comparison)}

ComparisonsOfOr(expr) ==
    IF IsNil(expr) THEN {}
    ELSE UNION {ComparisonsOfAnd(expr[1].And[i]) : i \in 1..Len(expr[1].And)}

ASTComparisons(ast) == IF IsNil(ast) THEN {} ELSE ComparisonsOfOr(ast[1].Expression)

OperatorAndValue(c) == ~IsNil(c.Op) /\ ~IsNil(c.Right) /\ IsNil(c.Null)

NullCheckOnly(c) == ~IsNil(c.Null) /\ IsNil(c.Right)

BareSubExpr(c) ==
    /\ IsNil(c.Op) /\ IsNil(c.Right) /\ IsNil(c.Null)
    /\ ~IsNil(c.Left) /\ ~IsNil(c.Left[1].SubExpr)

\* C21: every Comparison of an AST that ParseFilter returns has one of three
\* shapes (which exclude each other): an operator with a value and no
\* NullCheck, a NullCheck and no value, or a parenthesized sub-expression with
\* no operator, value or NullCheck.
C21_ComparisonHasOneShape ==
    (Parsed /\ IsNil(pret.err)) =>
        \A c \in ASTComparisons(pret.ast) :
            OperatorAndValue(c) \/ NullCheckOnly(c) \/ BareSubExpr(c)

\* ------------------------------------------------------------------ C22
\* C22: NULL or NOT NULL is valid only directly after IS: ParseFilter returns
\* a syntax error for a comparison where it follows a field, an operator other
\* than IS, or a value.
C22_NullOnlyAfterIs ==
    (Parsed /\ pin \in NullSuffixTexts) => (IsNil(pret.ast) /\ IsSyntaxError(pret.err, pin))

\* ------------------------------------------------------------------ C23
\* The groups of an AST that have two or more children with a rendering,
\* counted on the AST without the builder.
RECURSIVE RendersOr(_)
RECURSIVE RendersAnd(_)
RECURSIVE RendersComparison(_)
RECURSIVE JoinedInOr(_)
RECURSIVE JoinedInAnd(_)
RECURSIVE JoinedInComparison(_)
RECURSIVE Sum(_)

Sum(ns) == IF ns = <<>> THEN 0 ELSE Head(ns) + Sum(Tail(ns))

\* a comparison that has an SQL text: a field with a null check or with an
\* operator and a value, or a sub-expression that has one
RendersComparison(comp) ==
    IF IsNil(comp) \/ IsNil(comp[1].Left) THEN FALSE
    ELSE IF ~IsNil(comp[1].Left[1].SubExpr) THEN RendersOr(comp[1].Left[1].SubExpr)
    ELSE /\ comp[1].Left[1].Field # <<>>
         /\ \/ ~IsNil(comp[1].Null)
            \/ ~IsNil(comp[1].Op) /\ ~IsNil(comp[1].Right)

RendersAnd(expr) ==
    ~IsNil(expr) /\ \E i \in 1..Len(expr[1].Comparison) : RendersComparison(expr[1].Comparison[i])

RendersOr(expr) ==
    ~IsNil(expr) /\ \E i \in 1..Len(expr[1].And) : RendersAnd(expr[1].And[i])

JoinedInComparison(comp) ==
    IF IsNil(comp) \/ IsNil(comp[1].Left) THEN 0 ELSE JoinedInOr(comp[1].Left[1].SubExpr)

JoinedInAnd(expr) ==
    IF IsNil(expr) THEN 0
    ELSE (IF Cardinality({i \in 1..Len(expr[1].Comparison) :
                             RendersComparison(expr[1].Comparison[i])}) >= 2 THEN 1 ELSE 0)
         + Sum([i \in 1..Len(expr[1].Comparison) |-> JoinedInComparison(expr[1].Comparison[i])])

JoinedInOr(expr) ==
    IF IsNil(expr) THEN 0
    ELSE (IF Cardinality({i \in 1..Len(expr[1].And) : RendersAnd(expr[1].And[i])}) >= 2
          THEN 1 ELSE 0)
         + Sum([i \in 1..Len(expr[1].And) |-> JoinedInAnd(expr[1].And[i])])

JoinedGroups(filter) == IF IsNil(filter) THEN 0 ELSE JoinedInOr(filter[1].Expression)

\* the WHERE text of the last call
WhereText == IF ret.op = "Where" THEN ret.sql ELSE WherePart(ret.sql)

Built23 == ret.op \in {"ToSQL", "Where"} /\ ~ret.panic

\* C23: an AND or OR group is inside one pair of parentheses when two or more
\* of its children have a rendering and inside none when one has; a
\* parenthesized sub-expression adds none: the text has one "(" per such group
\* and nothing else opens a group, "((a=1))" is "a = ?" and the OR of two
\* parenthesized ANDs is "((a >= ? AND b = ?) OR (c >= ? AND d = ?))".
C23_ParenthesesPerJoinedGroup ==
    Built23 =>
        /\ Cardinality(KeywordAt(WhereText, "(")) = JoinedGroups(qb.filter)
        /\ (JoinedGroups(qb.filter) > 0) =>
               (WhereText[1] = "(" /\ WhereText[Len(WhereText)] = ")")
        /\ (pin = Chars("((a=1))") /\ qb.placeholderStyle = <<"?">>)
               => Str(WhereText) = "a = ?"
        /\ (pin = Chars("(a>=1 && b=\"x\") || (c>=2 && d=\"y\")")
                /\ qb.placeholderStyle = <<"?">>)
               => Str(WhereText) = "((a >= ? AND b = ?) OR (c >= ? AND d = ?))"

\* the OR of two parenthesized ANDs was rendered with three pairs of
\* parentheses
C23_Witness ==
    /\ Built23
    /\ pin = Chars("(a>=1 && b=\"x\") || (c>=2 && d=\"y\")")
    /\ JoinedGroups(qb.filter) = 3
    /\ Cardinality(KeywordAt(WhereText, "(")) = 3

\* ------------------------------------------------------------------ C24
\* a comparison of a field with IN or NOT IN and an array, without a null check
IsInList(c) ==
    /\ ~IsNil(c.Left) /\ c.Left[1].Field # <<>> /\ IsNil(c.Left[1].SubExpr)
    /\ ~IsNil(c.Op) /\ (c.Op[1] \cap {"In", "NotIn"}) # {}
    /\ ~IsNil(c.Right) /\ ~IsNil(c.Right[1].Array)
    /\ IsNil(c.Null)

\* a comparison of a field with a null check, without a value
IsNullCheck(c) ==
    /\ ~IsNil(c.Left) /\ c.Left[1].Field # <<>> /\ IsNil(c.Left[1].SubExpr)
    /\ ~IsNil(c.Null) /\ IsNil(c.Right)

\* the placeholders p1, ..., pn of a style, from the first
PlaceholderList(style, n) ==
    [i \in 1..n |-> IF style = <<"?">> THEN <<"?">> ELSE <<style[1]>> \o Itoa(i)]

InListValues(c) == c.Right[1].Array[1].Values

InListArgs(c) == [i \in 1..Len(InListValues(c)) |-> extractValue(InListValues(c)[i])]

InListText(c, style) ==
    c.Left[1].Field \o <<" ", IF "In" \in c.Op[1] THEN "IN" ELSE "NOT IN", " (">>
        \o Join(PlaceholderList(style, Len(InListValues(c))), <<", ">>) \o <<")">>

\* the comparison c built alone, on the builder after its reset
BuiltAlone(c) == buildComparison(ResetArgs(qb), Some(c))

\* C24: an IN or NOT IN comparison with an array of n elements is written as
\* "<field> IN (p1, ..., pn)" (or NOT IN) with n placeholders and appends n
\* arguments, the i-th the extracted value of the i-th element, and they are
\* in the returned arguments in that order; a comparison with a null check
\* writes no placeholder and appends no argument.
C24_OnePlaceholderPerElement ==
    (Rendered /\ ~ret.panic) =>
        \A c \in ASTComparisons(qb.filter) :
            /\ IsInList(c) =>
                  \A r \in {BuiltAlone(c)} :
                      /\ Str(r.sql) = Str(InListText(c, qb.placeholderStyle))
                      /\ Cardinality(PlaceholdersAt(r.sql, qb.placeholderStyle))
                             = Len(InListValues(c))
                      /\ r.qb.args = InListArgs(c)
                      /\ Contains(ret.args, InListArgs(c))
            /\ IsNullCheck(c) =>
                  \A r \in {BuiltAlone(c)} :
                      /\ PlaceholdersAt(r.sql, qb.placeholderStyle) = {}
                      /\ r.qb.args = <<>>
                      /\ r.qb.placeholderCount = 0
                      /\ r.sql # <<>>

\* a builder with numbered placeholders rendered an IN list of two elements
\* and a null check
C24_Witness ==
    /\ Rendered
    /\ Numbered
    /\ \E c \in ASTComparisons(qb.filter) : IsInList(c) /\ Len(InListValues(c)) = 2
    /\ \E c \in ASTComparisons(qb.filter) : IsNullCheck(c)
    /\ Len(ret.args) = 2

\* ------------------------------------------------------------------ C25
ClauseKeywords == <<"SELECT ", " FROM ", " WHERE ", " ORDER BY ", " LIMIT ", " OFFSET ">>

\* where the k-th keyword stands in an SQL text that holds it
KeywordPos(sql, k) == CHOOSE i \in KeywordAt(sql, ClauseKeywords[k]) : TRUE

HasClause(sql, k) == KeywordAt(sql, ClauseKeywords[k]) # {}

\* where the clause of the k-th keyword ends: before the next keyword of the
\* text, or at its end
ClauseEnd(sql, k) ==
    IF \E j \in (k + 1)..Len(ClauseKeywords) : HasClause(sql, j)
    THEN KeywordPos(sql, CHOOSE j \in (k + 1)..Len(ClauseKeywords) :
                             /\ HasClause(sql, j)
                             /\ \A m \in (k + 1)..(j - 1) : ~HasClause(sql, m)) - 1
    ELSE Len(sql)

\* what is written after the k-th keyword
ClauseBody(sql, k) == SubSeq(sql, KeywordPos(sql, k) + 1, ClauseEnd(sql, k))

Directions(body) == [n \in 1..Cardinality({i \in 1..Len(body) : body[i] \in {" ASC", " DESC"}})
                        |-> body[Nth({i \in 1..Len(body) : body[i] \in {" ASC", " DESC"}}, n)]]

\* C26: the ORDER BY clause of a sort list that is not empty has one entry
\* per element, in the order of the list, joined by ", ": an element with a
\* leading "-" is the element without that one character followed by " DESC",
\* any other is the element followed by " ASC".
C26_OrderByFollowsSortList ==
    (ret.op = "ToSQL" /\ ~ret.panic /\ Len(qb.sort) > 0) =>
        /\ HasClause(ret.sql, 4)
        /\ ClauseBody(ret.sql, 4)
              = Join([i \in 1..Len(qb.sort) |->
                         IF qb.sort[i] # <<>> /\ qb.sort[i][1] = "-"
                         THEN SubSeq(qb.sort[i], 2, Len(qb.sort[i])) \o <<" DESC">>
                         ELSE qb.sort[i] \o <<" ASC">>], <<", ">>)
        /\ Directions(ClauseBody(ret.sql, 4))
              = [i \in 1..Len(qb.sort) |->
                    IF qb.sort[i] # <<>> /\ qb.sort[i][1] = "-" THEN " DESC" ELSE " ASC"]
        /\ Cardinality(KeywordAt(ClauseBody(ret.sql, 4), ", ")) = Len(qb.sort) - 1

\* a sort of three elements, one of them with two leading "-", rendered
\* between a WHERE and a LIMIT
C26_Witness ==
    /\ ret.op = "ToSQL"
    /\ Len(qb.sort) = 3
    /\ Contains(ret.sql, <<"-", "a", " DESC", ", ", "b", " ASC", ", ", "i", "d", " DESC">>)
    /\ HasClause(ret.sql, 3)
    /\ HasClause(ret.sql, 5)

\* ------------------------------------------------------------------ C27
\* the literal tokens of a text, left to right
LiteralTokensOf(text) ==
    Let(filterLexer(text).toks, LAMBDA toks :
    Let({k \in 1..Len(toks) : IsLiteral(toks[k])}, LAMBDA at :
        [n \in 1..Cardinality(at) |-> toks[Nth(at, n)]]))

\* the argument is the token's value: a string without its two quotes and
\* without the quote character inside, the number of an Int or Float token,
\* the truth value of a Boolean word
BindsToken(arg, tok) ==
    IF tok.type = "String"
    THEN /\ arg.k = "string"
         /\ tok.value[1] \in {"'", "\""}
         /\ tok.value[Len(tok.value)] = tok.value[1]
         /\ arg.s = SubSeq(tok.value, 2, Len(tok.value) - 1)
         /\ Len(arg.s) = Len(tok.value) - 2
         /\ \A i \in 1..Len(arg.s) : arg.s[i] # tok.value[1]
    ELSE IF tok.type = "Int"
    THEN arg.k = "int" /\ arg.i = Atoi(tok.value)
    ELSE IF tok.type = "Float"
    THEN arg.k = "float64" /\ arg.i * ParseFloat(tok.value).den = ParseFloat(tok.value).num * arg.d
    ELSE /\ arg.k = "bool"
         /\ arg.b <=> Str(tok.value) \in {"true", "TRUE"}
         /\ ~arg.b <=> Str(tok.value) \in {"false", "FALSE"}

\* C27: the argument bound for a literal is, for a String, the token without
\* its first and last character, the two quotes, and the quote character is
\* not in it; for an Int or a Float, the number; for a Boolean, true for
\* true/TRUE and false for false/FALSE.
C27_ArgumentIsLiteralValue ==
    (Rendered /\ ~ret.panic /\ pin \in LiteralTexts) =>
        /\ IsNil(pret.err)
        /\ Len(ret.args) = Len(LiteralTokensOf(pin))
        /\ \A n \in 1..Len(ret.args) : BindsToken(ret.args[n], LiteralTokensOf(pin)[n])

\* a double-quoted string with a single quote inside and a signed float were
\* bound from one IN list
C27_Witness ==
    /\ Rendered
    /\ pin = Chars("a IN (\"it's\", -0.5)")
    /\ ret.args = <<StringArg(Chars("it's")), FloatArg([num |-> 0 - 5, den |-> 10])>>

\* ------------------------------------------------------------------ C28
\* a new builder with the configuration of qb and nothing built on it
Fresh ==
    [NewQueryBuilder(qb.table) EXCEPT !.fields = qb.fields, !.filter = qb.filter,
                                      !.sort = qb.sort, !.limit = qb.limit,
                                      !.offset = qb.offset,
                                      !.placeholderStyle = qb.placeholderStyle]

\* C28: whatever was called before, ToSQL and Where return what a new builder
\* with the same table, fields, filter, sort, limit, offset and placeholder
\* style returns, and what the next ToSQL or Where on the builder as it is
\* now returns; numbered placeholders start at 1 again.
C28_OutputDependsOnConfigurationOnly ==
    /\ (ret.op = "ToSQL" /\ ~ret.panic) =>
          /\ ret.sql = ToSQL(Fresh).sql
          /\ ret.args = ToSQL(Fresh).args
    /\ (ret.op = "Where" /\ ~ret.panic) =>
          /\ ret.sql = Where(Fresh).sql
          /\ ret.args = Where(Fresh).args
    /\ ToSQL(qb).sql = ToSQL(Fresh).sql /\ ToSQL(qb).args = ToSQL(Fresh).args
    /\ Where(qb).sql = Where(Fresh).sql /\ Where(qb).args = Where(Fresh).args
    /\ (Rendered /\ Numbered /\ PlaceholdersAt(ret.sql, qb.placeholderStyle) # {}) =>
          NumberAt(ret.sql, Nth(PlaceholdersAt(ret.sql, qb.placeholderStyle), 1)) = <<"1">>

\* a ToSQL with numbered placeholders right after a Where on the same builder
C28_Witness ==
    /\ ret.op = "ToSQL"
    /\ prev.op = "Where"
    /\ Numbered
    /\ Len(ret.args) >= 2
    /\ qb.placeholderCount = Len(ret.args)
    /\ qb.sort # <<>>

\* ------------------------------------------------------------------ C29
\* C29: a Validator.ToSQL that fails leaves the QueryBuilder as it was, table,
\* fields, filter, sort, limit, offset, placeholder style, arguments and
\* counter, so that ToSQL on it returns afterwards what it returned before.
C29_FailedValidationLeavesBuilder ==
    [][(ret'.op = "Validator.ToSQL" /\ ~IsNil(ret'.err) /\ ret' # ret) =>
          /\ qb' = qb
          /\ ToSQL(qb').sql = ToSQL(qb).sql
          /\ ToSQL(qb').args = ToSQL(qb).args]_vars

\* a validation failed on a builder that holds the arguments and the counter
\* of an earlier ToSQL
C29_Witness ==
    /\ ret.op = "Validator.ToSQL"
    /\ ~IsNil(ret.err)
    /\ Len(qb.args) >= 2
    /\ qb.placeholderCount = Len(qb.args)

\* ------------------------------------------------------------------ C30
\* C30: for every AST that ParseFilter returns, no argument that ToSQL returns
\* is nil: every placeholder is bound to the string, integer, float or boolean
\* of a literal, also when a scalar operator has an array as its value or an
\* element of an array is an array.
C30_NoNilArgument ==
    (ret.op = "ToSQL" /\ Accepted /\ ~ret.panic) =>
        \A n \in 1..Len(ret.args) : ret.args[n].k \in {"string", "int", "float64", "bool"}

====
